---- MODULE Spec2Model ----
(***************************************************************************)
(* SCMI pin-control client (drivers/pinctrl/nxp/pinctrl-scmi.c).           *)
(*                                                                         *)
(* A u32 bit mask is modelled as the set of its set bit positions, so      *)
(* OR is \cup and AND is \cap; Value gives the number where the code       *)
(* compares or packs one.  A packed config (PACK_CFG) is the record of its *)
(* two bit fields: the low 8 bits (param) and the upper 24 bits (arg).     *)
(***************************************************************************)
EXTENDS Integers, Sequences, FiniteSets, TLC

(* ------------------------------ bounds -------------------------------- *)
MaxFunc == 1
MaxArg == 1
MaxRanges == 1
MaxCfgLen == 3

(* ------------------------- program constants -------------------------- *)
U16_MAX == 65535
SCMI_PINCTRL_NUM_RANGES_MASK == 65535
SCMI_MAX_BUFFER_SIZE == 92
CONV_PIN_CONFIG_NUM_CONFIGS == 24
CONV_PIN_CONFIG_ERROR == 25
EINVAL == 22
ENOMEM == 12
ENXIO == 6
EIO == 5
EPROTO == 71
SCMI_NOT_SUPPORTED == -1
GPIOF_INPUT == 0
GPIOF_OUTPUT == 1
GPIOF_UNKNOWN == 3
GPIOF_FUNC == 4
ArgBits == 24
ParamModulus == 256
SetConfigsHeaderSize == 12
SlotSize == 4
MaskTopBit == 31

(* enum converted_pin_param *)
CONV_PIN_CONFIG_BIAS_BUS_HOLD == 0
CONV_PIN_CONFIG_BIAS_DISABLE == 1
CONV_PIN_CONFIG_BIAS_HIGH_IMPEDANCE == 2
CONV_PIN_CONFIG_BIAS_PULL_DOWN == 3
CONV_PIN_CONFIG_BIAS_PULL_PIN_DEFAULT == 4
CONV_PIN_CONFIG_BIAS_PULL_UP == 5
CONV_PIN_CONFIG_DRIVE_OPEN_DRAIN == 6
CONV_PIN_CONFIG_DRIVE_OPEN_SOURCE == 7
CONV_PIN_CONFIG_DRIVE_PUSH_PULL == 8
CONV_PIN_CONFIG_DRIVE_STRENGTH == 9
CONV_PIN_CONFIG_DRIVE_STRENGTH_UA == 10
CONV_PIN_CONFIG_INPUT_DEBOUNCE == 11
CONV_PIN_CONFIG_INPUT_ENABLE == 12
CONV_PIN_CONFIG_INPUT_SCHMITT == 13
CONV_PIN_CONFIG_INPUT_SCHMITT_ENABLE == 14
CONV_PIN_CONFIG_MODE_LOW_POWER == 15
CONV_PIN_CONFIG_MODE_PWM == 16
CONV_PIN_CONFIG_OUTPUT == 17
CONV_PIN_CONFIG_OUTPUT_ENABLE == 18
CONV_PIN_CONFIG_PERSIST_STATE == 19
CONV_PIN_CONFIG_POWER_SOURCE == 20
CONV_PIN_CONFIG_SKEW_DELAY == 21
CONV_PIN_CONFIG_SLEEP_HARDWARE_STATE == 22
CONV_PIN_CONFIG_SLEW_RATE == 23

(* --------------------------- bit arithmetic --------------------------- *)
RECURSIVE Pow2(_)
Pow2(n) == IF n = 0 THEN 1 ELSE 2 * Pow2(n - 1)

BIT_32(n) == {n}

RECURSIVE Value(_)
\* The number a bit set stands for (bits below 31 only: TLC's integers).
Value(S) ==
    IF S = {} THEN 0
    ELSE LET b == CHOOSE x \in S : TRUE IN Pow2(b) + Value(S \ {b})

\* The bit set of a number 0 <= n < 2^31.
Bits(n) == {i \in 0..30 : (n \div Pow2(i)) % 2 = 1}

\* (u32)(n << k), as a bit set.
ShiftLeft(n, k) == {b + k : b \in Bits(n)} \cap (0..MaskTopBit)

(* --------------------------- packed configs --------------------------- *)
PACK_CFG(p, a) == [param |-> p % ParamModulus, arg |-> a % Pow2(ArgBits)]
UNPACK_PARAM(packed) == packed.param
UNPACK_ARG(packed) == packed.arg

\* static const u32 scmi_pinctrl_multi_bit_cfgs
scmi_pinctrl_multi_bit_cfgs ==
    BIT_32(CONV_PIN_CONFIG_SLEW_RATE) \cup
    BIT_32(CONV_PIN_CONFIG_SKEW_DELAY) \cup
    BIT_32(CONV_PIN_CONFIG_POWER_SOURCE) \cup
    BIT_32(CONV_PIN_CONFIG_MODE_LOW_POWER) \cup
    BIT_32(CONV_PIN_CONFIG_INPUT_SCHMITT) \cup
    BIT_32(CONV_PIN_CONFIG_INPUT_DEBOUNCE) \cup
    BIT_32(CONV_PIN_CONFIG_DRIVE_STRENGTH_UA) \cup
    BIT_32(CONV_PIN_CONFIG_DRIVE_STRENGTH)

scmi_pinctrl_is_multi_bit_value(p) ==
    (BIT_32(p) \cap scmi_pinctrl_multi_bit_cfgs) # {}

hweight32(S) == Cardinality(S)

\* static const enum converted_pin_param scmi_pinctrl_convert[]
scmi_pinctrl_convert ==
    [PIN_CONFIG_BIAS_BUS_HOLD |-> CONV_PIN_CONFIG_BIAS_BUS_HOLD,
     PIN_CONFIG_BIAS_DISABLE |-> CONV_PIN_CONFIG_BIAS_DISABLE,
     PIN_CONFIG_BIAS_HIGH_IMPEDANCE |-> CONV_PIN_CONFIG_BIAS_HIGH_IMPEDANCE,
     PIN_CONFIG_BIAS_PULL_DOWN |-> CONV_PIN_CONFIG_BIAS_PULL_DOWN,
     PIN_CONFIG_BIAS_PULL_PIN_DEFAULT |-> CONV_PIN_CONFIG_BIAS_PULL_PIN_DEFAULT,
     PIN_CONFIG_BIAS_PULL_UP |-> CONV_PIN_CONFIG_BIAS_PULL_UP,
     PIN_CONFIG_DRIVE_OPEN_DRAIN |-> CONV_PIN_CONFIG_DRIVE_OPEN_DRAIN,
     PIN_CONFIG_DRIVE_OPEN_SOURCE |-> CONV_PIN_CONFIG_DRIVE_OPEN_SOURCE,
     PIN_CONFIG_DRIVE_PUSH_PULL |-> CONV_PIN_CONFIG_DRIVE_PUSH_PULL,
     PIN_CONFIG_DRIVE_STRENGTH |-> CONV_PIN_CONFIG_DRIVE_STRENGTH,
     PIN_CONFIG_DRIVE_STRENGTH_UA |-> CONV_PIN_CONFIG_DRIVE_STRENGTH_UA,
     PIN_CONFIG_INPUT_DEBOUNCE |-> CONV_PIN_CONFIG_INPUT_DEBOUNCE,
     PIN_CONFIG_INPUT_ENABLE |-> CONV_PIN_CONFIG_INPUT_ENABLE,
     PIN_CONFIG_INPUT_SCHMITT |-> CONV_PIN_CONFIG_INPUT_SCHMITT,
     PIN_CONFIG_INPUT_SCHMITT_ENABLE |-> CONV_PIN_CONFIG_INPUT_SCHMITT_ENABLE,
     PIN_CONFIG_LOW_POWER_MODE |-> CONV_PIN_CONFIG_MODE_LOW_POWER,
     PIN_CONFIG_OUTPUT_ENABLE |-> CONV_PIN_CONFIG_OUTPUT_ENABLE,
     PIN_CONFIG_OUTPUT |-> CONV_PIN_CONFIG_OUTPUT,
     PIN_CONFIG_POWER_SOURCE |-> CONV_PIN_CONFIG_POWER_SOURCE,
     PIN_CONFIG_SLEEP_HARDWARE_STATE |-> CONV_PIN_CONFIG_SLEEP_HARDWARE_STATE,
     PIN_CONFIG_SLEW_RATE |-> CONV_PIN_CONFIG_SLEW_RATE,
     PIN_CONFIG_SKEW_DELAY |-> CONV_PIN_CONFIG_SKEW_DELAY]

(* ----------------------------- Config Set ----------------------------- *)
\* struct scmi_pinctrl_pin_cfg.  configs holds the num_configs entries in
\* use; held is the number of slots of the storage configs points to (0
\* for NULL); oob records a write past that storage.
EmptyCfg == [num_configs |-> 0, allocated |-> 0, configs |-> <<>>,
             held |-> 0, oob |-> FALSE]

\* scmi_pinctrl_add_config; alloc_ok says whether realloc succeeds.
scmi_pinctrl_add_config(config, cfg, alloc_ok) ==
    IF cfg.num_configs > CONV_PIN_CONFIG_NUM_CONFIGS
    THEN [ret |-> -EINVAL, cfg |-> cfg]
    ELSE LET grow == cfg.allocated <= cfg.num_configs
             newalloc == (2 * cfg.num_configs + 1) % 256
             c1 == IF grow THEN [cfg EXCEPT !.allocated = newalloc] ELSE cfg
             c2 == IF grow THEN [c1 EXCEPT !.held = newalloc] ELSE c1
         IN  IF grow /\ ~alloc_ok
             THEN [ret |-> -ENOMEM, cfg |-> c1]
             ELSE [ret |-> 0,
                   cfg |-> [c2 EXCEPT
                              !.configs = Append(c2.configs, config),
                              !.num_configs = (c2.num_configs + 1) % 256,
                              !.oob = c2.oob \/ (c2.num_configs >= c2.held)]]

\* Mutant: the comparison is the wrong way round (ascending order).
scmi_pinctrl_compare_cfgs_asc(a, b) == UNPACK_PARAM(a) - UNPACK_PARAM(b)

\* scmi_pinctrl_compare_cfgs
scmi_pinctrl_compare_cfgs(a, b) == UNPACK_PARAM(b) - UNPACK_PARAM(a)

RemoveAt(s, i) == SubSeq(s, 1, i - 1) \o SubSeq(s, i + 1, Len(s))

RECURSIVE qsort(_)
\* Every order qsort can leave: each permutation in which no element is
\* followed by one that compares before it (ties in any order; of equal
\* entries the first is taken, as swapping them changes nothing).
qsort(s) ==
    IF s = <<>> THEN {<<>>}
    ELSE LET first == {i \in 1..Len(s) :
                         /\ \A j \in 1..Len(s) :
                               scmi_pinctrl_compare_cfgs(s[i], s[j]) <= 0
                         /\ \A j \in 1..(i - 1) : s[j] # s[i]}
         IN  UNION {{<<s[i]>> \o t : t \in qsort(RemoveAt(s, i))} : i \in first}

(* ------------------------- transport and codec ------------------------ *)
\* What scmi_send_and_process_msg can give for one request: its return
\* value and the response's leading status field.
Replies == {[ret |-> 0, status |-> 0],
            [ret |-> 0, status |-> SCMI_NOT_SUPPORTED],
            [ret |-> -EIO, status |-> 0]}

ReplyOk(reply) == reply.ret = 0 /\ reply.status = 0

\* scmi_to_linux_errno: 0 for status 0, a negative errno otherwise.
scmi_to_linux_errno(status) == IF status = 0 THEN 0 ELSE -EPROTO

\* One request as handed to the transport, with the reply it got.
Req(msg, pin, func, mask, bv, mbv, size, reply) ==
    [msg |-> msg, pin |-> pin, func |-> func, mask |-> mask,
     boolean_values |-> bv, multi_bit_values |-> mbv, in_msg_sz |-> size,
     reply |-> reply]

\* scmi_pinctrl_set_mux
scmi_pinctrl_set_mux(pin, func, reply) ==
    [ret |-> IF reply.ret # 0 THEN reply.ret
             ELSE scmi_to_linux_errno(reply.status),
     sent |-> <<Req("PINMUX_SET", pin % (U16_MAX + 1), func % (U16_MAX + 1),
                    {}, {}, <<>>, 6, reply)>>]

\* scmi_pinctrl_get_mux; function is the response's function field.
scmi_pinctrl_get_mux(pin, reply, function) ==
    LET ret == IF reply.ret # 0 THEN reply.ret
               ELSE scmi_to_linux_errno(reply.status)
    IN  [ret |-> ret, func |-> function,
         sent |-> <<Req("PINMUX_GET", pin % (U16_MAX + 1), 0, {}, {}, <<>>,
                        2, reply)>>]

max_mb_elems == (SCMI_MAX_BUFFER_SIZE - SetConfigsHeaderSize) \div SlotSize

RECURSIVE SetConfigsLoop_off_by_one(_, _, _)
\* Mutant: the capacity test is `index > max_mb_elems`.
SetConfigsLoop_off_by_one(configs, i, r) ==
    IF i > Len(configs) THEN [r EXCEPT !.ret = 0]
    ELSE LET param == UNPACK_PARAM(configs[i])
             arg == UNPACK_ARG(configs[i])
             r1 == [r EXCEPT !.mask = @ \cup (BIT_32(param) \cap (0..MaskTopBit))]
         IN  IF param > CONV_PIN_CONFIG_NUM_CONFIGS
             THEN [r1 EXCEPT !.ret = -EINVAL]
             ELSE IF Len(r1.multi_bit_values) > max_mb_elems
             THEN [r1 EXCEPT !.ret = -EINVAL]
             ELSE IF scmi_pinctrl_is_multi_bit_value(param)
             THEN SetConfigsLoop_off_by_one(configs, i + 1,
                    [r1 EXCEPT !.multi_bit_values = Append(@, arg)])
             ELSE SetConfigsLoop_off_by_one(configs, i + 1,
                    [r1 EXCEPT !.boolean_values =
                        @ \cup (IF arg # 0 THEN BIT_32(param) ELSE {})])

RECURSIVE SetConfigsLoop(_, _, _)
\* The for loop of scmi_pinctrl_set_configs from entry i on; r is the
\* request built so far.  BIT_32(param) for param >= 32 is an undefined
\* shift; the mask it leaves is never sent (the next test returns).
SetConfigsLoop(configs, i, r) ==
    IF i > Len(configs) THEN [r EXCEPT !.ret = 0]
    ELSE LET param == UNPACK_PARAM(configs[i])
             arg == UNPACK_ARG(configs[i])
             r1 == [r EXCEPT !.mask = @ \cup (BIT_32(param) \cap (0..MaskTopBit))]
         IN  IF param > CONV_PIN_CONFIG_NUM_CONFIGS
             THEN [r1 EXCEPT !.ret = -EINVAL]
             ELSE IF Len(r1.multi_bit_values) >= max_mb_elems
             THEN [r1 EXCEPT !.ret = -EINVAL]
             ELSE IF scmi_pinctrl_is_multi_bit_value(param)
             THEN SetConfigsLoop(configs, i + 1,
                    [r1 EXCEPT !.multi_bit_values = Append(@, arg)])
             ELSE SetConfigsLoop(configs, i + 1,
                    [r1 EXCEPT !.boolean_values =
                        @ \cup (IF arg # 0 THEN BIT_32(param) ELSE {})])

\* scmi_pinctrl_set_configs; sorted is the order qsort left (one of
\* qsort(cfg.configs)), which stays in cfg.  index is the local variable
\* index at the return: the number of multi_bit_values slots written.
scmi_pinctrl_set_configs(pin, cfg, sorted, reply) ==
    IF pin > U16_MAX
    THEN [ret |-> -EINVAL, cfg |-> cfg, sent |-> <<>>, index |-> 0]
    ELSE LET c == [cfg EXCEPT !.configs = sorted]
             r == SetConfigsLoop(sorted, 1,
                    [mask |-> {}, boolean_values |-> {},
                     multi_bit_values |-> <<>>, ret |-> 0])
         IN  IF r.ret # 0
             THEN [ret |-> r.ret, cfg |-> c, sent |-> <<>>,
                   index |-> Len(r.multi_bit_values)]
             ELSE [ret |-> IF reply.ret # 0 THEN reply.ret
                           ELSE scmi_to_linux_errno(reply.status),
                   cfg |-> c,
                   index |-> Len(r.multi_bit_values),
                   sent |-> <<Req("PINCONF_SET_OVR", pin, 0, r.mask,
                                  r.boolean_values, r.multi_bit_values,
                                  SCMI_MAX_BUFFER_SIZE, reply)>>]

\* scmi_pinctrl_append_conf
scmi_pinctrl_append_conf(pin, param, arg, reply) ==
    IF pin > U16_MAX \/ param >= CONV_PIN_CONFIG_NUM_CONFIGS
    THEN [ret |-> -EINVAL, sent |-> <<>>]
    ELSE IF Value(BIT_32(param)) >= CONV_PIN_CONFIG_NUM_CONFIGS
    THEN [ret |-> -EINVAL, sent |-> <<>>]
    ELSE IF ~scmi_pinctrl_is_multi_bit_value(param)
    THEN [ret |-> reply.ret,
          sent |-> <<Req("PINCONF_SET_APP", pin, 0, BIT_32(param),
                         ShiftLeft(arg, param), <<>>, 12, reply)>>]
    ELSE [ret |-> reply.ret,
          sent |-> <<Req("PINCONF_SET_APP", pin, 0, BIT_32(param), {},
                         <<arg>>, 16, reply)>>]

\* Slot i (from 0) of a response's multi_bit_values: the buffer is zeroed
\* before the transport fills it.
ReadSlot(mbv, i) == IF i + 1 <= Len(mbv) THEN mbv[i + 1] ELSE 0

RECURSIVE PushBackLoop(_, _, _, _, _)
\* The do-while of scmi_pinctrl_push_back_configs from bit on.
PushBackLoop(resp, bit, cfg_idx, cfg, alloc_ok) ==
    IF bit >= CONV_PIN_CONFIG_NUM_CONFIGS
    THEN [ret |-> -EINVAL, cfg |-> cfg]
    ELSE IF scmi_pinctrl_is_multi_bit_value(bit)
            /\ cfg_idx >= hweight32(scmi_pinctrl_multi_bit_cfgs)
    THEN [ret |-> -EINVAL, cfg |-> cfg]
    ELSE LET multi == scmi_pinctrl_is_multi_bit_value(bit)
             current_cfg ==
                IF multi
                THEN PACK_CFG(bit, ReadSlot(resp.multi_bit_values, cfg_idx))
                ELSE PACK_CFG(bit, Value(resp.boolean_values \cap BIT_32(bit)))
             a == scmi_pinctrl_add_config(current_cfg, cfg, alloc_ok)
         IN  IF a.ret # 0 THEN a
             ELSE IF bit = 0 THEN a
             ELSE PushBackLoop(resp, bit - 1,
                               IF multi THEN cfg_idx + 1 ELSE cfg_idx,
                               a.cfg, alloc_ok)

\* scmi_pinctrl_push_back_configs
scmi_pinctrl_push_back_configs(resp, cfg, alloc_ok) ==
    PushBackLoop(resp, MaskTopBit, 0, cfg, alloc_ok)

\* scmi_pinctrl_get_config; resp is the response the remote gives.
scmi_pinctrl_get_config(pin, reply, resp, alloc_ok) ==
    LET sent == <<Req("PINCONF_GET", pin % (U16_MAX + 1), 0, {}, {}, <<>>,
                      2, reply)>>
        freed(c) == [c EXCEPT !.configs = <<>>, !.held = 0]
    IN  IF reply.ret # 0
        THEN [ret |-> reply.ret, cfg |-> EmptyCfg, sent |-> sent]
        ELSE IF scmi_to_linux_errno(reply.status) # 0
        THEN [ret |-> scmi_to_linux_errno(reply.status), cfg |-> EmptyCfg,
              sent |-> sent]
        ELSE LET d == scmi_pinctrl_push_back_configs(resp, EmptyCfg, alloc_ok)
             IN  [ret |-> d.ret,
                  cfg |-> IF d.ret # 0 THEN freed(d.cfg) ELSE d.cfg,
                  sent |-> sent]

(* ------------------------------- state -------------------------------- *)
VARIABLES
    parent,        \* dev->parent is set (the SCMI agent device exists)
    probed,        \* scmi_pinctrl_probe has returned 0
    num_ranges,    \* priv->num_ranges
    ranges,        \* priv->ranges
    gpio_configs,  \* priv->gpio_configs, head first
    rmux,          \* the remote's mux function of each pin
    rconf,         \* the remote's configuration of each pin
    call,          \* the last call made to the driver and what it returned
    sent,          \* the requests that call handed to the transport
    prev,          \* history: the call before, when it was a GPIO claim
    codec          \* the last direct application of a codec function

vars == <<parent, probed, num_ranges, ranges, gpio_configs, rmux, rconf,
          call, sent, prev, codec>>

(* --------------------------- input domains ---------------------------- *)
\* The lowest and the highest pin a u16 can name, and the first selector
\* that is too wide.
Pins16 == {0, U16_MAX}
PinSel == Pins16 \cup {U16_MAX + 1}
FuncSel == (0..MaxFunc) \cup {U16_MAX + 1}
Args == 0..MaxArg
GenericSel == {"PIN_CONFIG_BIAS_DISABLE", "PIN_CONFIG_BIAS_PULL_UP",
               "PIN_CONFIG_SLEW_RATE", "PIN_CONFIG_END"}

(* --------------------- the remote pin control service ----------------- *)
RECURSIVE DescSeq(_)
\* The members of a set of numbers, highest first.
DescSeq(S) ==
    IF S = {} THEN <<>>
    ELSE LET m == CHOOSE x \in S : \A y \in S : y <= x
         IN  <<m>> \o DescSeq(S \ {m})

IndexOf(seq, x) == CHOOSE i \in 1..Len(seq) : seq[i] = x

\* A pin's configuration is a function from the wire parameters applied to
\* it to their values.  The Get Config response for it:
RemoteResp(conf) ==
    LET multi == DescSeq(DOMAIN conf \cap scmi_pinctrl_multi_bit_cfgs)
    IN  [mask |-> DOMAIN conf,
         boolean_values |-> {p \in DOMAIN conf \ scmi_pinctrl_multi_bit_cfgs :
                               conf[p] # 0},
         multi_bit_values |-> [i \in 1..Len(multi) |-> conf[multi[i]]]]

\* The value a Set Config request gives parameter p of its mask.
ReqValue(req, p) ==
    IF p \in scmi_pinctrl_multi_bit_cfgs
    THEN ReadSlot(req.multi_bit_values,
                  IndexOf(DescSeq(req.mask \cap scmi_pinctrl_multi_bit_cfgs), p) - 1)
    ELSE IF p \in req.boolean_values THEN 1 ELSE 0

\* The remote after one request: a request answered with status 0 has been
\* carried out, any other has changed nothing.
RemoteAfter(rem, req) ==
    IF ~ReplyOk(req.reply) \/ req.pin \notin DOMAIN rem.mux THEN rem
    ELSE IF req.msg = "PINMUX_SET"
    THEN [rem EXCEPT !.mux[req.pin] = req.func]
    ELSE IF req.msg = "PINCONF_SET_OVR"
    THEN [rem EXCEPT !.conf[req.pin] = [p \in req.mask |-> ReqValue(req, p)]]
    ELSE IF req.msg = "PINCONF_SET_APP"
    THEN [rem EXCEPT !.conf[req.pin] =
            [p \in DOMAIN @ \cup req.mask |->
               IF p \in req.mask THEN ReqValue(req, p) ELSE @[p]]]
    ELSE rem

RECURSIVE RemoteAfterAll(_, _)
RemoteAfterAll(rem, reqs) ==
    IF reqs = <<>> THEN rem
    ELSE RemoteAfterAll(RemoteAfter(rem, Head(reqs)), Tail(reqs))

RMux(pin) == IF pin \in DOMAIN rmux THEN rmux[pin] ELSE 0
RConf(pin) == IF pin \in DOMAIN rconf THEN rconf[pin] ELSE <<>>

InitRemoteConfs ==
    {<<>>,
     (CONV_PIN_CONFIG_OUTPUT_ENABLE :> 1),
     (CONV_PIN_CONFIG_INPUT_ENABLE :> 1)}

(* ------------------------------ handlers ------------------------------ *)
\* scmi_pinctrl_get_proto_attr
scmi_pinctrl_get_proto_attr(reply, attributes) ==
    LET req == <<Req("PROTOCOL_ATTRIBUTES", 0, 0, {}, {}, <<>>, 0, reply)>>
        ret == IF reply.ret # 0 THEN reply.ret
               ELSE scmi_to_linux_errno(reply.status)
    IN  [ret |-> ret, sent |-> req,
         num_ranges |-> IF ret = 0
                        THEN attributes % (SCMI_PINCTRL_NUM_RANGES_MASK + 1)
                        ELSE num_ranges]

\* scmi_pinctrl_get_pin_ranges; n is priv->num_ranges, recs the records of
\* the response, resp_ok and ranges_ok whether the two malloc calls succeed.
scmi_pinctrl_get_pin_ranges(n, reply, recs, resp_ok, ranges_ok) ==
    LET req == <<Req("DESCRIBE", 0, 0, {}, {}, <<>>, 0, reply)>>
    IN  IF ~resp_ok THEN [ret |-> -ENOMEM, sent |-> <<>>, ranges |-> ranges]
        ELSE IF reply.ret # 0
        THEN [ret |-> reply.ret, sent |-> req, ranges |-> ranges]
        ELSE IF scmi_to_linux_errno(reply.status) # 0
        THEN [ret |-> scmi_to_linux_errno(reply.status), sent |-> req,
              ranges |-> ranges]
        ELSE IF ~ranges_ok
        THEN [ret |-> -ENOMEM, sent |-> req, ranges |-> <<>>]
        ELSE [ret |-> 0, sent |-> req,
              ranges |-> [i \in 1..n |->
                            [begin |-> recs[i].begin,
                             num_pins |-> recs[i].num_pins]]]

\* Mutant: the ranges are requested whatever the attributes request returned.
scmi_pinctrl_probe_always_describe(r1, attributes, r2, recs, resp_ok, ranges_ok) ==
    IF ~parent
    THEN [ret |-> -ENXIO, sent |-> <<>>, num_ranges |-> num_ranges,
          ranges |-> ranges]
    ELSE LET a == scmi_pinctrl_get_proto_attr(r1, attributes)
             g == scmi_pinctrl_get_pin_ranges(a.num_ranges, r2, recs,
                                              resp_ok, ranges_ok)
         IN  [ret |-> IF a.ret # 0 THEN a.ret ELSE g.ret,
              sent |-> a.sent \o g.sent,
              num_ranges |-> a.num_ranges, ranges |-> g.ranges]

\* scmi_pinctrl_init and scmi_pinctrl_probe
scmi_pinctrl_probe(r1, attributes, r2, recs, resp_ok, ranges_ok) ==
    IF ~parent
    THEN [ret |-> -ENXIO, sent |-> <<>>, num_ranges |-> num_ranges,
          ranges |-> ranges]
    ELSE LET a == scmi_pinctrl_get_proto_attr(r1, attributes)
         IN  IF a.ret # 0
             THEN [ret |-> a.ret, sent |-> a.sent,
                   num_ranges |-> a.num_ranges, ranges |-> ranges]
             ELSE LET g == scmi_pinctrl_get_pin_ranges(a.num_ranges, r2, recs,
                                                       resp_ok, ranges_ok)
                  IN  [ret |-> g.ret, sent |-> a.sent \o g.sent,
                       num_ranges |-> a.num_ranges, ranges |-> g.ranges]

\* Mutant: the selectors are tested with >= U16_MAX.
scmi_pinctrl_pinmux_set_ge(pin_selector, func_selector, reply) ==
    IF ~parent THEN [ret |-> -ENXIO, sent |-> <<>>]
    ELSE IF pin_selector >= U16_MAX \/ func_selector >= U16_MAX
    THEN [ret |-> -EINVAL, sent |-> <<>>]
    ELSE scmi_pinctrl_set_mux(pin_selector, func_selector, reply)

\* scmi_pinctrl_pinmux_set
scmi_pinctrl_pinmux_set(pin_selector, func_selector, reply) ==
    IF ~parent THEN [ret |-> -ENXIO, sent |-> <<>>]
    ELSE IF pin_selector > U16_MAX \/ func_selector > U16_MAX
    THEN [ret |-> -EINVAL, sent |-> <<>>]
    ELSE scmi_pinctrl_set_mux(pin_selector, func_selector, reply)

\* scmi_pinctrl_pinconf_set; p is a name of enum pin_config_param, or
\* "PIN_CONFIG_END" for a value at or beyond ARRAY_SIZE(scmi_pinctrl_convert).
scmi_pinctrl_pinconf_set(pin_selector, p, arg, reply) ==
    IF ~parent THEN [ret |-> -ENXIO, sent |-> <<>>]
    ELSE IF p \notin DOMAIN scmi_pinctrl_convert
    THEN [ret |-> -EINVAL, sent |-> <<>>]
    ELSE IF scmi_pinctrl_convert[p] = CONV_PIN_CONFIG_ERROR
    THEN [ret |-> -EINVAL, sent |-> <<>>]
    ELSE scmi_pinctrl_append_conf(pin_selector, scmi_pinctrl_convert[p], arg,
                                  reply)

\* Mutant: the result of Get Config is not tested (no goto err).
scmi_pinctrl_gpio_request_enable_nocheck(list, pin_selector, save_ok, r1, function, r2, resp, alloc_ok, r3) ==
    IF pin_selector > U16_MAX
    THEN [ret |-> -EINVAL, sent |-> <<>>, list |-> list]
    ELSE IF ~save_ok
    THEN [ret |-> -ENOMEM, sent |-> <<>>, list |-> list]
    ELSE LET m == scmi_pinctrl_get_mux(pin_selector, r1, function)
         IN  IF m.ret # 0
             THEN [ret |-> m.ret, sent |-> m.sent, list |-> list]
             ELSE LET g == scmi_pinctrl_get_config(pin_selector, r2, resp,
                                                   alloc_ok)
                      s == scmi_pinctrl_set_mux(pin_selector, 0, r3)
                      save == [pin |-> pin_selector, func |-> m.func,
                               cfg |-> g.cfg]
                  IN  [ret |-> s.ret,
                       sent |-> m.sent \o g.sent \o s.sent,
                       list |-> IF s.ret # 0 THEN list ELSE <<save>> \o list]

\* Mutant: list_add is done as soon as the mux function has been read, and
\* the error path does not unlink the entry.
scmi_pinctrl_gpio_request_enable_early(list, pin_selector, save_ok, r1, function, r2, resp, alloc_ok, r3) ==
    IF pin_selector > U16_MAX
    THEN [ret |-> -EINVAL, sent |-> <<>>, list |-> list]
    ELSE IF ~save_ok
    THEN [ret |-> -ENOMEM, sent |-> <<>>, list |-> list]
    ELSE LET m == scmi_pinctrl_get_mux(pin_selector, r1, function)
         IN  IF m.ret # 0
             THEN [ret |-> m.ret, sent |-> m.sent, list |-> list]
             ELSE LET g == scmi_pinctrl_get_config(pin_selector, r2, resp,
                                                   alloc_ok)
                      save == [pin |-> pin_selector, func |-> m.func,
                               cfg |-> g.cfg]
                  IN  IF g.ret # 0
                      THEN [ret |-> g.ret, sent |-> m.sent \o g.sent,
                            list |-> <<save>> \o list]
                      ELSE LET s == scmi_pinctrl_set_mux(pin_selector, 0, r3)
                           IN  [ret |-> s.ret,
                                sent |-> m.sent \o g.sent \o s.sent,
                                list |-> <<save>> \o list]

\* scmi_pinctrl_gpio_request_enable on the registry list.  save_ok: malloc
\* of the entry succeeds; r1/function: Get Mux; r2/resp/alloc_ok: Get
\* Config; r3: Set Mux to 0.
scmi_pinctrl_gpio_request_enable(list, pin_selector, save_ok, r1, function, r2, resp, alloc_ok, r3) ==
    IF pin_selector > U16_MAX
    THEN [ret |-> -EINVAL, sent |-> <<>>, list |-> list]
    ELSE IF ~save_ok
    THEN [ret |-> -ENOMEM, sent |-> <<>>, list |-> list]
    ELSE LET m == scmi_pinctrl_get_mux(pin_selector, r1, function)
         IN  IF m.ret # 0
             THEN [ret |-> m.ret, sent |-> m.sent, list |-> list]
             ELSE LET g == scmi_pinctrl_get_config(pin_selector, r2, resp,
                                                   alloc_ok)
                  IN  IF g.ret # 0
                      THEN [ret |-> g.ret, sent |-> m.sent \o g.sent,
                            list |-> list]
                      ELSE LET s == scmi_pinctrl_set_mux(pin_selector, 0, r3)
                               save == [pin |-> pin_selector, func |-> m.func,
                                        cfg |-> g.cfg]
                           IN  [ret |-> s.ret,
                                sent |-> m.sent \o g.sent \o s.sent,
                                list |-> IF s.ret # 0 THEN list
                                         ELSE <<save>> \o list]

\* The entries of the list for pin, in list order.
SavedAt(list, pin) == {i \in 1..Len(list) : list[i].pin = pin}
FirstSaved(list, pin) ==
    CHOOSE i \in SavedAt(list, pin) : \A j \in SavedAt(list, pin) : i <= j

\* Mutant: the entry is unlinked before the restore steps are tried.
scmi_pinctrl_gpio_disable_free_unlink(list, pin, r1, sorted, r2) ==
    IF SavedAt(list, pin) = {}
    THEN [ret |-> -EINVAL, sent |-> <<>>, list |-> list]
    ELSE LET i == FirstSaved(list, pin)
             save == list[i]
             m == scmi_pinctrl_set_mux(pin, save.func, r1)
         IN  IF m.ret # 0
             THEN [ret |-> m.ret, sent |-> m.sent, list |-> RemoveAt(list, i)]
             ELSE LET c == scmi_pinctrl_set_configs(pin, save.cfg, sorted, r2)
                  IN  [ret |-> c.ret, sent |-> m.sent \o c.sent,
                       list |-> RemoveAt(list, i)]

\* Mutant: the saved Config Set is restored before the saved function.
scmi_pinctrl_gpio_disable_free_swapped(list, pin, r1, sorted, r2) ==
    IF SavedAt(list, pin) = {}
    THEN [ret |-> -EINVAL, sent |-> <<>>, list |-> list]
    ELSE LET i == FirstSaved(list, pin)
             save == list[i]
             c == scmi_pinctrl_set_configs(pin, save.cfg, sorted, r1)
         IN  IF c.ret # 0
             THEN [ret |-> c.ret, sent |-> c.sent,
                   list |-> [list EXCEPT ![i].cfg = c.cfg]]
             ELSE LET m == scmi_pinctrl_set_mux(pin, save.func, r2)
                  IN  IF m.ret # 0
                      THEN [ret |-> m.ret, sent |-> c.sent \o m.sent,
                            list |-> [list EXCEPT ![i].cfg = c.cfg]]
                      ELSE [ret |-> 0, sent |-> c.sent \o m.sent,
                            list |-> RemoveAt(list, i)]

\* Mutant: ret starts at 0, so a pin with no entry is released "with success".
scmi_pinctrl_gpio_disable_free_ret0(list, pin, r1, sorted, r2) ==
    IF SavedAt(list, pin) = {}
    THEN [ret |-> 0, sent |-> <<>>, list |-> list]
    ELSE LET i == FirstSaved(list, pin)
             save == list[i]
             m == scmi_pinctrl_set_mux(pin, save.func, r1)
         IN  IF m.ret # 0
             THEN [ret |-> m.ret, sent |-> m.sent, list |-> list]
             ELSE LET c == scmi_pinctrl_set_configs(pin, save.cfg, sorted, r2)
                  IN  IF c.ret # 0
                      THEN [ret |-> c.ret, sent |-> m.sent \o c.sent,
                            list |-> [list EXCEPT ![i].cfg = c.cfg]]
                      ELSE [ret |-> 0, sent |-> m.sent \o c.sent,
                            list |-> RemoveAt(list, i)]

\* scmi_pinctrl_gpio_disable_free on the registry list.  r1: Set Mux;
\* sorted: the order qsort leaves the saved configs in; r2: Set Config.
scmi_pinctrl_gpio_disable_free(list, pin, r1, sorted, r2) ==
    IF SavedAt(list, pin) = {}
    THEN [ret |-> -EINVAL, sent |-> <<>>, list |-> list]
    ELSE LET i == FirstSaved(list, pin)
             save == list[i]
             m == scmi_pinctrl_set_mux(pin, save.func, r1)
         IN  IF m.ret # 0
             THEN [ret |-> m.ret, sent |-> m.sent, list |-> list]
             ELSE LET c == scmi_pinctrl_set_configs(pin, save.cfg, sorted, r2)
                  IN  IF c.ret # 0
                      THEN [ret |-> c.ret, sent |-> m.sent \o c.sent,
                            list |-> [list EXCEPT ![i].cfg = c.cfg]]
                      ELSE [ret |-> 0, sent |-> m.sent \o c.sent,
                            list |-> RemoveAt(list, i)]

\* scmi_pinctrl_get_gpio_mux
scmi_pinctrl_get_gpio_mux(index, r1, function, r2, resp, alloc_ok) ==
    IF index > U16_MAX \/ index < 0 THEN [ret |-> -EINVAL, sent |-> <<>>]
    ELSE IF ~parent THEN [ret |-> -ENXIO, sent |-> <<>>]
    ELSE LET m == scmi_pinctrl_get_mux(index, r1, function)
         IN  IF m.ret # 0 THEN [ret |-> m.ret, sent |-> m.sent]
             ELSE IF m.func # 0 THEN [ret |-> GPIOF_FUNC, sent |-> m.sent]
             ELSE LET g == scmi_pinctrl_get_config(index, r2, resp, alloc_ok)
                      cs == g.cfg.configs
                      output == \E i \in 1..Len(cs) :
                                   /\ UNPACK_PARAM(cs[i]) = CONV_PIN_CONFIG_OUTPUT_ENABLE
                                   /\ UNPACK_ARG(cs[i]) = 1
                      input == \E i \in 1..Len(cs) :
                                   /\ UNPACK_PARAM(cs[i]) = CONV_PIN_CONFIG_INPUT_ENABLE
                                   /\ UNPACK_ARG(cs[i]) = 1
                  IN  [ret |-> IF g.ret # 0 THEN g.ret
                               ELSE IF output THEN GPIOF_OUTPUT
                               ELSE IF input THEN GPIOF_INPUT
                               ELSE GPIOF_UNKNOWN,
                       sent |-> m.sent \o g.sent]

CodecIdle == [op |-> "idle", pin |-> 0, cfg |-> EmptyCfg,
              resp |-> [mask |-> {}, boolean_values |-> {},
                        multi_bit_values |-> <<>>],
              param |-> 0, arg |-> 0, ret |-> 0, out |-> EmptyCfg,
              sent |-> <<>>, index |-> 0, func |-> 0, generic |-> "",
              list |-> <<>>, list_out |-> <<>>, tree |-> <<>>,
              fails |-> <<>>, nodes |-> <<>>]

(* ------------------------------- actions ------------------------------ *)
\* The driver is entered by one caller at a time: a call runs to its return
\* (one action), and Return hands the result to the caller, after which
\* the next call can be made.
Call(op, pin, func, param, arg, allocs_ok, ret) ==
    [op |-> op, pin |-> pin, func |-> func, param |-> param, arg |-> arg,
     allocs_ok |-> allocs_ok, ret |-> ret,
     pre_mux |-> RMux(pin), pre_conf |-> RConf(pin), recs |-> <<>>]

NoCall == [op |-> "none", pin |-> 0, func |-> 0, param |-> "", arg |-> 0,
           allocs_ok |-> TRUE, ret |-> 0, pre_mux |-> 0, pre_conf |-> <<>>,
           recs |-> <<>>]

Idle == call = NoCall /\ codec.op = "idle"

AllOk(reqs) == \A i \in 1..Len(reqs) : ReplyOk(reqs[i].reply)

\* The replies to the (at most n) requests of one call.  Every handler
\* stops sending at the first reply that is not status 0, so the replies
\* after it are never used and are fixed.
Outcomes(n) ==
    {s \in [1..n -> Replies] :
       \A i \in 1..n : ~ReplyOk(s[i]) => \A j \in (i + 1)..n : ReplyOk(s[j])}

\* The transport carries the requests of a call to the remote.
Transport(reqs) ==
    LET rem == RemoteAfterAll([mux |-> rmux, conf |-> rconf], reqs)
    IN  /\ sent' = reqs
        /\ rmux' = rem.mux
        /\ rconf' = rem.conf

RangeRecs == {[begin |-> b, num_pins |-> 1] : b \in {0, U16_MAX}}

Probe ==
    /\ Idle
    /\ ~probed
    /\ \E r \in Outcomes(2), n \in 0..MaxRanges, hi \in {0, 1},
          resp_ok \in BOOLEAN, ranges_ok \in BOOLEAN :
          \E recs \in [1..n -> RangeRecs] :
             LET res == scmi_pinctrl_probe(r[1], n + hi * (U16_MAX + 1), r[2],
                                           recs, resp_ok, ranges_ok)
             IN  /\ call' = [Call("probe", 0, 0, "", n + hi * (U16_MAX + 1),
                                  resp_ok /\ ranges_ok, res.ret)
                                EXCEPT !.recs = recs]
                 /\ Transport(res.sent)
                 /\ probed' = (res.ret = 0)
                 /\ num_ranges' = res.num_ranges
                 /\ ranges' = res.ranges
                 /\ gpio_configs' = IF res.ret = 0 THEN <<>> ELSE gpio_configs
    /\ UNCHANGED <<parent, prev, codec>>

PinmuxSet ==
    /\ Idle
    /\ probed
    /\ \E pin \in PinSel, func \in FuncSel, reply \in Replies :
          LET res == scmi_pinctrl_pinmux_set(pin, func, reply)
          IN  /\ call' = Call("pinmux_set", pin, func, "", 0, TRUE, res.ret)
              /\ Transport(res.sent)
    /\ UNCHANGED <<parent, probed, num_ranges, ranges, gpio_configs, prev,
                   codec>>

PinconfSet ==
    /\ Idle
    /\ probed
    /\ \E pin \in PinSel, p \in GenericSel, arg \in Args, reply \in Replies :
          LET res == scmi_pinctrl_pinconf_set(pin, p, arg, reply)
          IN  /\ call' = Call("pinconf_set", pin, 0, p, arg, TRUE, res.ret)
              /\ Transport(res.sent)
    /\ UNCHANGED <<parent, probed, num_ranges, ranges, gpio_configs, prev,
                   codec>>

GpioRequestEnable ==
    /\ Idle
    /\ probed
    /\ \E pin \in PinSel, save_ok \in BOOLEAN, alloc_ok \in BOOLEAN,
          r \in Outcomes(3) :
          LET res == scmi_pinctrl_gpio_request_enable(
                        gpio_configs, pin, save_ok, r[1], RMux(pin), r[2],
                        RemoteResp(RConf(pin)), alloc_ok, r[3])
          IN  /\ call' = Call("gpio_request_enable", pin, 0, "", 0,
                              save_ok /\ alloc_ok, res.ret)
              /\ Transport(res.sent)
              /\ gpio_configs' = res.list
    /\ UNCHANGED <<parent, probed, num_ranges, ranges, prev, codec>>

GpioDisableFree ==
    /\ Idle
    /\ probed
    /\ \E pin \in PinSel, r \in Outcomes(2) :
          \E sorted \in IF SavedAt(gpio_configs, pin) = {} THEN {<<>>}
                        ELSE qsort(gpio_configs[FirstSaved(gpio_configs, pin)]
                                      .cfg.configs) :
             LET res == scmi_pinctrl_gpio_disable_free(gpio_configs, pin,
                                                       r[1], sorted, r[2])
             IN  /\ call' = Call("gpio_disable_free", pin, 0, "", 0, TRUE,
                                 res.ret)
                 /\ Transport(res.sent)
                 /\ gpio_configs' = res.list
    /\ UNCHANGED <<parent, probed, num_ranges, ranges, prev, codec>>

\* Mutant: the direction query drops the head of the registry.
GetGpioMux_unlinks ==
    /\ Idle
    /\ probed
    /\ \E index \in PinSel \cup {-1}, alloc_ok \in BOOLEAN, r \in Outcomes(2) :
          LET res == scmi_pinctrl_get_gpio_mux(index, r[1], RMux(index), r[2],
                                               RemoteResp(RConf(index)),
                                               alloc_ok)
          IN  /\ call' = Call("get_gpio_mux", index, 0, "", 0, alloc_ok,
                              res.ret)
              /\ Transport(res.sent)
    /\ gpio_configs' = IF gpio_configs = <<>> THEN <<>> ELSE Tail(gpio_configs)
    /\ UNCHANGED <<parent, probed, num_ranges, ranges, prev, codec>>

GetGpioMux ==
    /\ Idle
    /\ probed
    /\ \E index \in PinSel \cup {-1}, alloc_ok \in BOOLEAN, r \in Outcomes(2) :
          LET res == scmi_pinctrl_get_gpio_mux(index, r[1], RMux(index), r[2],
                                               RemoteResp(RConf(index)),
                                               alloc_ok)
          IN  /\ call' = Call("get_gpio_mux", index, 0, "", 0, alloc_ok,
                              res.ret)
              /\ Transport(res.sent)
    /\ UNCHANGED <<parent, probed, num_ranges, ranges, gpio_configs, prev,
                   codec>>

NoPrev == [op |-> "none", pin |-> 0, ret |-> 0, pre_mux |-> 0,
           pre_conf |-> <<>>]

\* The call returns to its caller.  prev keeps what a GPIO claim that the
\* remote answered with status 0 throughout (and that met no allocation
\* failure) returned, and the pin's mux and configuration before it.
Return ==
    /\ call # NoCall
    /\ prev' = IF call.op = "gpio_request_enable" /\ AllOk(sent)
                  /\ call.allocs_ok /\ call.pin <= U16_MAX
               THEN [op |-> call.op, pin |-> call.pin, ret |-> call.ret,
                     pre_mux |-> call.pre_mux, pre_conf |-> call.pre_conf]
               ELSE NoPrev
    /\ call' = NoCall
    /\ sent' = <<>>
    /\ UNCHANGED <<parent, probed, num_ranges, ranges, gpio_configs, rmux,
                   rconf, codec>>

Init ==
    /\ parent \in BOOLEAN
    /\ probed = FALSE
    /\ num_ranges = 0
    /\ ranges = <<>>
    /\ gpio_configs = <<>>
    /\ \E f \in 0..MaxFunc : rmux = [p \in Pins16 |-> IF p = 0 THEN f ELSE 0]
    /\ \E c \in InitRemoteConfs :
          rconf = [p \in Pins16 |-> IF p = 0 THEN c ELSE <<>>]
    /\ call = NoCall
    /\ sent = <<>>
    /\ prev = NoPrev
    /\ codec = CodecIdle

Next ==
    \/ Probe
    \/ PinmuxSet
    \/ PinconfSet
    \/ GpioRequestEnable
    \/ GpioDisableFree
    \/ GetGpioMux
    \/ Return

Spec == Init /\ [][Next]_vars

(* ------------- claim and release on a populated registry ------------- *)
RECURSIVE MkCfg(_)
\* The Config Set scmi_pinctrl_add_config builds from the entries of seq.
MkCfg(seq) ==
    IF seq = <<>> THEN EmptyCfg
    ELSE scmi_pinctrl_add_config(seq[Len(seq)],
                                 MkCfg(SubSeq(seq, 1, Len(seq) - 1)),
                                 TRUE).cfg

\* Saved Config Sets, in the order the Get Config decoder walks the mask.
SavedCfgs ==
    {MkCfg(<<PACK_CFG(CONV_PIN_CONFIG_INPUT_ENABLE, 1)>>),
     MkCfg(<<PACK_CFG(CONV_PIN_CONFIG_SLEW_RATE, MaxArg),
             PACK_CFG(CONV_PIN_CONFIG_SKEW_DELAY, 1),
             PACK_CFG(CONV_PIN_CONFIG_OUTPUT_ENABLE, 1)>>)}

SavedEntries ==
    {[pin |-> p, func |-> f, cfg |-> c] :
        p \in Pins16, f \in 0..MaxFunc, c \in SavedCfgs}

\* Registries holding at most one struct scmi_pinctrl_saved_pin per pin.
SavedLists ==
    {<<>>} \cup {<<e>> : e \in SavedEntries}
    \cup {l \in {<<e, f>> : e \in SavedEntries, f \in SavedEntries} :
             l[1].pin # l[2].pin}

\* The driver after a successful probe, with pins claimed: the state
\* list_add (line 686) is written to leave.
InitSaved ==
    /\ parent = TRUE
    /\ probed = TRUE
    /\ num_ranges = 0
    /\ ranges = <<>>
    /\ gpio_configs \in SavedLists
    /\ rmux = [p \in Pins16 |-> 0]
    /\ rconf \in [Pins16 -> InitRemoteConfs]
    /\ call = NoCall
    /\ sent = <<>>
    /\ prev = NoPrev
    /\ codec = CodecIdle

NextSaved ==
    \/ GpioRequestEnable
    \/ GpioDisableFree
    \/ Return

SpecSaved == InitSaved /\ [][NextSaved]_vars

(* ------------------- the codec functions on their own ----------------- *)
ParamPool == {CONV_PIN_CONFIG_BIAS_DISABLE, CONV_PIN_CONFIG_OUTPUT_ENABLE,
              CONV_PIN_CONFIG_SKEW_DELAY, CONV_PIN_CONFIG_SLEW_RATE,
              CONV_PIN_CONFIG_NUM_CONFIGS, CONV_PIN_CONFIG_ERROR}

RECURSIVE UniqueSeqs(_, _)
\* The sequences of at most n packed configs with distinct parameters of P.
UniqueSeqs(P, n) ==
    IF n = 0 THEN {<<>>}
    ELSE {<<>>} \cup
         UNION {{<<PACK_CFG(p, a)>> \o t : t \in UniqueSeqs(P \ {p}, n - 1),
                                           a \in Args} : p \in P}

\* n times the entry e.
Repeat(e, n) == [i \in 1..n |-> e]

\* Config Sets around the capacity of the request buffer: one slot short
\* of max_mb_elems multi-bit entries up to two too many, alone or after a
\* boolean entry (scmi_pinctrl_add_config takes repeated parameters).
LongCfgs ==
    {b \o Repeat(PACK_CFG(CONV_PIN_CONFIG_SLEW_RATE, 1), n) :
        b \in {<<>>, <<PACK_CFG(CONV_PIN_CONFIG_BIAS_DISABLE, 1)>>},
        n \in (max_mb_elems - 1)..(max_mb_elems + 2)}

CfgInputs == UniqueSeqs(ParamPool, MaxCfgLen) \cup LongCfgs

\* Get Config responses: any mask over the pool, any boolean bits over the
\* same positions, and as many multi-bit slots as the mask names.
RespInputs ==
    UNION {{[mask |-> m, boolean_values |-> b, multi_bit_values |-> v] :
              b \in SUBSET (m \ scmi_pinctrl_multi_bit_cfgs),
              v \in [1..Cardinality(m \cap scmi_pinctrl_multi_bit_cfgs)
                       -> Args \ {0}]} :
           m \in SUBSET ParamPool}

CodecSetConfigs ==
    /\ Idle
    /\ \E pin \in PinSel, configs \in CfgInputs, reply \in Replies :
          \E sorted \in qsort(configs) :
             LET res == scmi_pinctrl_set_configs(pin, MkCfg(configs), sorted,
                                                 reply)
             IN  codec' = [CodecIdle EXCEPT !.op = "set_configs",
                                           !.pin = pin,
                                           !.cfg = MkCfg(configs),
                                           !.ret = res.ret,
                                           !.out = res.cfg,
                                           !.index = res.index,
                                           !.sent = res.sent]
    /\ UNCHANGED <<parent, probed, num_ranges, ranges, gpio_configs, rmux,
                   rconf, call, sent, prev>>

CodecGetConfig ==
    /\ Idle
    /\ \E pin \in Pins16, resp \in RespInputs, reply \in Replies,
          alloc_ok \in BOOLEAN :
          LET res == scmi_pinctrl_get_config(pin, reply, resp, alloc_ok)
          IN  codec' = [CodecIdle EXCEPT !.op = "get_config",
                                        !.pin = pin,
                                        !.resp = resp,
                                        !.arg = IF alloc_ok THEN 1 ELSE 0,
                                        !.ret = res.ret,
                                        !.out = res.cfg,
                                        !.sent = res.sent]
    /\ UNCHANGED <<parent, probed, num_ranges, ranges, gpio_configs, rmux,
                   rconf, call, sent, prev>>

CodecAppendConf ==
    /\ Idle
    /\ \E pin \in PinSel, param \in 0..CONV_PIN_CONFIG_ERROR, arg \in Args,
          reply \in Replies :
          LET res == scmi_pinctrl_append_conf(pin, param, arg, reply)
          IN  codec' = [CodecIdle EXCEPT !.op = "append_conf",
                                        !.pin = pin,
                                        !.param = param,
                                        !.arg = arg,
                                        !.ret = res.ret,
                                        !.sent = res.sent]
    /\ UNCHANGED <<parent, probed, num_ranges, ranges, gpio_configs, rmux,
                   rconf, call, sent, prev>>

\* The entries given to scmi_pinctrl_add_config for a set of n entries.
AddInputs(n) ==
    IF n < MaxCfgLen
    THEN {PACK_CFG(CONV_PIN_CONFIG_BIAS_DISABLE, 1),
          PACK_CFG(CONV_PIN_CONFIG_SLEW_RATE, MaxArg)}
    ELSE {PACK_CFG(CONV_PIN_CONFIG_SLEW_RATE, MaxArg)}

\* One more scmi_pinctrl_add_config on the Config Set the calls before
\* it left (the empty set at first), with realloc succeeding or failing.
CodecAddConfig ==
    /\ call = NoCall
    /\ codec.op \in {"idle", "add_config"}
    /\ LET cur == IF codec.op = "add_config" THEN codec.out ELSE EmptyCfg
       IN  \E config \in AddInputs(cur.num_configs), alloc_ok \in BOOLEAN :
              LET res == scmi_pinctrl_add_config(config, cur, alloc_ok)
              IN  codec' = [CodecIdle EXCEPT !.op = "add_config",
                                            !.cfg = cur,
                                            !.param = UNPACK_PARAM(config),
                                            !.arg = IF alloc_ok THEN 1 ELSE 0,
                                            !.ret = res.ret,
                                            !.out = res.cfg]
    /\ UNCHANGED <<parent, probed, num_ranges, ranges, gpio_configs, rmux,
                   rconf, call, sent, prev>>

\* The handlers applied to given arguments, registries and replies.
CodecPinmuxSet ==
    /\ Idle
    /\ \E pin \in PinSel, func \in FuncSel \cup {U16_MAX}, reply \in Replies :
          LET res == scmi_pinctrl_pinmux_set(pin, func, reply)
          IN  codec' = [CodecIdle EXCEPT !.op = "pinmux_set",
                                        !.pin = pin,
                                        !.func = func,
                                        !.ret = res.ret,
                                        !.sent = res.sent]
    /\ UNCHANGED <<parent, probed, num_ranges, ranges, gpio_configs, rmux,
                   rconf, call, sent, prev>>

CodecPinconfSet ==
    /\ Idle
    /\ \E pin \in PinSel, p \in GenericSel, arg \in Args, reply \in Replies :
          LET res == scmi_pinctrl_pinconf_set(pin, p, arg, reply)
          IN  codec' = [CodecIdle EXCEPT !.op = "pinconf_set",
                                        !.pin = pin,
                                        !.generic = p,
                                        !.arg = arg,
                                        !.ret = res.ret,
                                        !.sent = res.sent]
    /\ UNCHANGED <<parent, probed, num_ranges, ranges, gpio_configs, rmux,
                   rconf, call, sent, prev>>

CodecGpioRequestEnable ==
    /\ Idle
    /\ \E list \in SavedLists, pin \in PinSel, save_ok \in BOOLEAN,
          function \in 0..MaxFunc, conf \in InitRemoteConfs,
          alloc_ok \in BOOLEAN, r \in Outcomes(3) :
          LET res == scmi_pinctrl_gpio_request_enable(
                        list, pin, save_ok, r[1], function, r[2],
                        RemoteResp(conf), alloc_ok, r[3])
          IN  codec' = [CodecIdle EXCEPT !.op = "gpio_request_enable",
                                        !.pin = pin,
                                        !.list = list,
                                        !.list_out = res.list,
                                        !.ret = res.ret,
                                        !.sent = res.sent]
    /\ UNCHANGED <<parent, probed, num_ranges, ranges, gpio_configs, rmux,
                   rconf, call, sent, prev>>

CodecGetGpioMux ==
    /\ Idle
    /\ \E index \in PinSel \cup {-1}, function \in 0..MaxFunc,
          conf \in InitRemoteConfs, alloc_ok \in BOOLEAN, r \in Outcomes(2) :
          LET res == scmi_pinctrl_get_gpio_mux(index, r[1], function, r[2],
                                               RemoteResp(conf), alloc_ok)
          IN  codec' = [CodecIdle EXCEPT !.op = "get_gpio_mux",
                                        !.pin = index,
                                        !.func = function,
                                        !.ret = res.ret,
                                        !.sent = res.sent]
    /\ UNCHANGED <<parent, probed, num_ranges, ranges, gpio_configs, rmux,
                   rconf, call, sent, prev>>

CodecReturn ==
    /\ codec.op # "idle"
    /\ codec' = CodecIdle
    /\ UNCHANGED <<parent, probed, num_ranges, ranges, gpio_configs, rmux,
                   rconf, call, sent, prev>>

InitCodec ==
    /\ parent = TRUE
    /\ probed = FALSE
    /\ num_ranges = 0
    /\ ranges = <<>>
    /\ gpio_configs = <<>>
    /\ rmux = [p \in Pins16 |-> 0]
    /\ rconf = [p \in Pins16 |-> <<>>]
    /\ call = NoCall
    /\ sent = <<>>
    /\ prev = NoPrev
    /\ codec = CodecIdle

NextCodec ==
    \/ CodecSetConfigs
    \/ CodecGetConfig
    \/ CodecAppendConf
    \/ CodecAddConfig
    \/ CodecPinmuxSet
    \/ CodecPinconfSet
    \/ CodecGpioRequestEnable
    \/ CodecGetGpioMux
    \/ CodecReturn

SpecCodec == InitCodec /\ [][NextCodec]_vars

(* ------------------------------ set_state ----------------------------- *)
\* A configuration node is the sequence of its properties, each a name and
\* the bytes of its value as the device tree stores them (big-endian cells).
Prop(name, value) == [name |-> name, value |-> value]

\* static const struct pinconf_param scmi_pinctrl_pinconf_params[]
scmi_pinctrl_pinconf_params ==
    <<[property |-> "bias-pull-up", param |-> "PIN_CONFIG_BIAS_PULL_UP",
       default_value |-> 1],
      [property |-> "bias-pull-down", param |-> "PIN_CONFIG_BIAS_PULL_DOWN",
       default_value |-> 1],
      [property |-> "bias-disable", param |-> "PIN_CONFIG_BIAS_DISABLE",
       default_value |-> 1],
      [property |-> "input-enable", param |-> "PIN_CONFIG_INPUT_ENABLE",
       default_value |-> 1],
      [property |-> "input-disable", param |-> "PIN_CONFIG_INPUT_ENABLE",
       default_value |-> 0],
      [property |-> "output-enable", param |-> "PIN_CONFIG_OUTPUT_ENABLE",
       default_value |-> 1],
      [property |-> "output-disable", param |-> "PIN_CONFIG_OUTPUT_ENABLE",
       default_value |-> 0],
      [property |-> "slew-rate", param |-> "PIN_CONFIG_SLEW_RATE",
       default_value |-> 4],
      [property |-> "drive-open-drain", param |-> "PIN_CONFIG_DRIVE_OPEN_DRAIN",
       default_value |-> 1],
      [property |-> "drive-push-pull", param |-> "PIN_CONFIG_DRIVE_PUSH_PULL",
       default_value |-> 1]>>

\* fdt32_to_cpu: the number four big-endian bytes stand for.
fdt32_to_cpu(b) ==
    b[1] * Pow2(24) + b[2] * Pow2(16) + b[3] * Pow2(8) + b[4]

\* The positions in config of the property called name.
PropsNamed(config, name) ==
    {i \in 1..Len(config) : config[i].name = name}

\* dev_read_size: the length of the property's value, negative when the
\* node has no such property.
dev_read_size(config, name) ==
    IF PropsNamed(config, name) = {} THEN -EINVAL
    ELSE Len(config[CHOOSE i \in PropsNamed(config, name) : TRUE].value)

\* dev_read_u32_index: cell index of the property.
dev_read_u32_index(config, name, index) ==
    IF PropsNamed(config, name) = {} THEN [ret |-> -EINVAL, value |-> 0]
    ELSE LET v == config[CHOOSE i \in PropsNamed(config, name) : TRUE].value
         IN  IF SlotSize * (index + 1) > Len(v)
             THEN [ret |-> -EINVAL, value |-> 0]
             ELSE [ret |-> 0,
                   value |-> fdt32_to_cpu(SubSeq(v, SlotSize * index + 1,
                                                 SlotSize * (index + 1)))]

SCMI_PINCTRL_PIN_FROM_PINMUX(v) == v \div Pow2(4)
SCMI_PINCTRL_FUNC_FROM_PINMUX(v) == v % Pow2(4)

\* The rows of scmi_pinctrl_pinconf_params whose property is name.
MatchRows(name) ==
    {i \in 1..Len(scmi_pinctrl_pinconf_params) :
        scmi_pinctrl_pinconf_params[i].property = name}

\* Mutant: the table's default is taken whatever value the property has.
scmi_pinctrl_app_pinconf_setting_default_only(property, cfg, alloc_ok) ==
    IF MatchRows(property.name) = {} THEN [ret |-> 0, cfg |-> cfg]
    ELSE IF Len(property.value) \notin {0, SlotSize}
    THEN [ret |-> -EINVAL, cfg |-> cfg]
    ELSE scmi_pinctrl_add_config(
            PACK_CFG(scmi_pinctrl_convert[
                        scmi_pinctrl_pinconf_params[
                           CHOOSE i \in MatchRows(property.name) :
                              \A j \in MatchRows(property.name) : i <= j].param],
                     scmi_pinctrl_pinconf_params[
                        CHOOSE i \in MatchRows(property.name) :
                           \A j \in MatchRows(property.name) : i <= j]
                        .default_value),
            cfg, alloc_ok)

\* The body of the loop of scmi_pinctrl_app_pinconf_setting for the row p
\* the property's name was found in.
PinconfSettingOf(p, property, cfg, alloc_ok) ==
    IF Len(property.value) # SlotSize /\ Len(property.value) # 0
    THEN [ret |-> -EINVAL, cfg |-> cfg]
    ELSE IF p.param \notin DOMAIN scmi_pinctrl_convert
    THEN [ret |-> -EINVAL, cfg |-> cfg]
    ELSE IF scmi_pinctrl_convert[p.param] = CONV_PIN_CONFIG_ERROR
    THEN [ret |-> -EINVAL, cfg |-> cfg]
    ELSE scmi_pinctrl_add_config(
            PACK_CFG(scmi_pinctrl_convert[p.param],
                     IF Len(property.value) = SlotSize
                     THEN fdt32_to_cpu(property.value)
                     ELSE p.default_value),
            cfg, alloc_ok)

\* scmi_pinctrl_app_pinconf_setting; dev_read_prop_by_prop gives the
\* property's name, value and length (a property met by the iteration has
\* a value, of length 0 or more).
scmi_pinctrl_app_pinconf_setting(property, cfg, alloc_ok) ==
    IF Len(property.value) < 0 THEN [ret |-> -EINVAL, cfg |-> cfg]
    ELSE IF MatchRows(property.name) = {} THEN [ret |-> 0, cfg |-> cfg]
    ELSE PinconfSettingOf(
            scmi_pinctrl_pinconf_params[
               CHOOSE i \in MatchRows(property.name) :
                  \A j \in MatchRows(property.name) : i <= j],
            property, cfg, alloc_ok)

\* scmi_pinctrl_parse_pinmux_len
scmi_pinctrl_parse_pinmux_len(config) ==
    IF dev_read_size(config, "pinmux") < 0
    THEN dev_read_size(config, "pinmux")
    ELSE dev_read_size(config, "pinmux") \div SlotSize

RECURSIVE SubnodeProperties(_, _, _, _)
RECURSIVE SubnodeProperty(_, _, _, _)
\* The dev_for_each_property loop of scmi_pinctrl_set_state_subnode from
\* property i on; fail is the set of sizes at which growing the Config Set
\* fails (realloc returns NULL).
SubnodeProperties(config, i, cfg, fail) ==
    IF i > Len(config) THEN [ret |-> 0, cfg |-> cfg]
    ELSE SubnodeProperty(config, i, fail,
                         scmi_pinctrl_app_pinconf_setting(
                            config[i], cfg, cfg.num_configs \notin fail))

\* The loop after property i gave a.
SubnodeProperty(config, i, fail, a) ==
    IF a.ret # 0 THEN a
    ELSE SubnodeProperties(config, i + 1, a.cfg, fail)

RECURSIVE SubnodePinmux(_, _, _, _, _, _)
RECURSIVE SubnodeSetMux(_, _, _, _, _, _, _, _)
RECURSIVE SubnodeSetConfigs(_, _, _, _, _, _)
\* The pinmux loop of scmi_pinctrl_set_state_subnode from tuple i on; r
\* holds the replies to the requests, reqs the requests made so far.
SubnodePinmux(config, len, i, cfg, r, reqs) ==
    IF i >= len THEN [ret |-> 0, sent |-> reqs]
    ELSE IF dev_read_u32_index(config, "pinmux", i).ret # 0
    THEN [ret |-> dev_read_u32_index(config, "pinmux", i).ret, sent |-> reqs]
    ELSE IF \/ SCMI_PINCTRL_PIN_FROM_PINMUX(
                  dev_read_u32_index(config, "pinmux", i).value) > U16_MAX
            \/ SCMI_PINCTRL_FUNC_FROM_PINMUX(
                  dev_read_u32_index(config, "pinmux", i).value) > U16_MAX
    THEN [ret |-> -EINVAL, sent |-> reqs]
    ELSE SubnodeSetMux(
            config, len, i, cfg, r, reqs,
            SCMI_PINCTRL_PIN_FROM_PINMUX(
               dev_read_u32_index(config, "pinmux", i).value),
            scmi_pinctrl_set_mux(
               SCMI_PINCTRL_PIN_FROM_PINMUX(
                  dev_read_u32_index(config, "pinmux", i).value),
               SCMI_PINCTRL_FUNC_FROM_PINMUX(
                  dev_read_u32_index(config, "pinmux", i).value),
               r[Len(reqs) + 1]))

\* The loop after scmi_pinctrl_set_mux gave m for tuple i.  The Config Set
\* holds no two multi-bit entries of one parameter (one table name is
\* multi-bit), so every order qsort can leave gives one request.
SubnodeSetMux(config, len, i, cfg, r, reqs, pin, m) ==
    IF m.ret # 0 THEN [ret |-> m.ret, sent |-> reqs \o m.sent]
    ELSE SubnodeSetConfigs(
            config, len, i, r, reqs \o m.sent,
            scmi_pinctrl_set_configs(pin, cfg,
                                     CHOOSE o \in qsort(cfg.configs) : TRUE,
                                     r[Len(reqs) + 2]))

\* The loop after scmi_pinctrl_set_configs gave c for tuple i.
SubnodeSetConfigs(config, len, i, r, reqs, c) ==
    IF c.ret # 0 THEN [ret |-> c.ret, sent |-> reqs \o c.sent]
    ELSE SubnodePinmux(config, len, i + 1, c.cfg, r, reqs \o c.sent)

\* What scmi_pinctrl_set_state_subnode gives once the properties gave p;
\* built says whether the node's Config Set was built from all its
\* properties, configs is that set as built.
SubnodeBuilt(config, len, r, p) ==
    IF p.ret # 0
    THEN [ret |-> p.ret, sent |-> <<>>, built |-> FALSE, configs |-> <<>>]
    ELSE SubnodePinmux(config, len, 0, p.cfg, r, <<>>)
            @@ [built |-> TRUE, configs |-> p.cfg.configs]

\* scmi_pinctrl_set_state_subnode
scmi_pinctrl_set_state_subnode(config, r, fail) ==
    IF scmi_pinctrl_parse_pinmux_len(config) <= 0
    THEN [ret |-> 0, sent |-> <<>>, built |-> FALSE, configs |-> <<>>]
    ELSE SubnodeBuilt(config, scmi_pinctrl_parse_pinmux_len(config), r,
                      SubnodeProperties(config, 1, EmptyCfg, fail))

RECURSIVE StateChildren(_, _, _, _, _)
RECURSIVE StateNode(_, _, _, _, _, _)
\* The device_foreach_child loop of scmi_pinctrl_set_state from node i of
\* the tree on; nodes holds what the nodes before it gave.
StateChildren(tree, i, r, fails, nodes) ==
    IF i > Len(tree) THEN [ret |-> 0, nodes |-> nodes]
    ELSE StateNode(tree, i, r, fails, nodes,
                   scmi_pinctrl_set_state_subnode(tree[i], r, fails[i]))

\* scmi_pinctrl_set_state after scmi_pinctrl_set_state_subnode gave n for
\* node i: return its error, or go on with the next child.
StateNode(tree, i, r, fails, nodes, n) ==
    IF n.ret # 0 THEN [ret |-> n.ret, nodes |-> Append(nodes, n)]
    ELSE StateChildren(tree, i + 1, SubSeq(r, Len(n.sent) + 1, Len(r)), fails,
                       Append(nodes, n))

\* Mutant: the children are applied before the node itself.
scmi_pinctrl_set_state_children_first(tree, r, fails) ==
    StateChildren([i \in 1..Len(tree) |-> tree[Len(tree) + 1 - i]], 1, r,
                  [i \in 1..Len(tree) |-> fails[Len(tree) + 1 - i]], <<>>)

\* scmi_pinctrl_set_state; tree[1] is config, the rest its children.
scmi_pinctrl_set_state(tree, r, fails) ==
    StateNode(tree, 1, r, fails, <<>>,
              scmi_pinctrl_set_state_subnode(tree[1], r, fails[1]))

\* Pin configuration properties: defaults, explicit cells (one wider than
\* 24 bits), a name the table does not have, and a value of two cells.
ConfProps ==
    {Prop("bias-pull-up", <<>>),
     Prop("input-disable", <<>>),
     Prop("slew-rate", <<0, 0, 0, 2>>),
     Prop("slew-rate", <<1, 0, 0, 1>>),
     Prop("vendor,other", <<0, 0, 0, 1, 0, 0, 0, 1>>),
     Prop("output-enable", <<0, 0, 0, 1, 0, 0, 0, 1>>)}

\* Up to two of them, no name twice (a node has one property of a name).
ConfSeqs ==
    {<<>>} \cup {<<a>> : a \in ConfProps}
    \cup {s \in {<<a, b>> : a \in ConfProps, b \in ConfProps} :
             s[1].name # s[2].name}

\* pinmux properties: no tuple, (pin 0, function 1), (pin 65535, function
\* 0) then (pin 0, function 1), and (pin 65536, function 0) first.
PinmuxProps ==
    {Prop("pinmux", <<>>),
     Prop("pinmux", <<0, 0, 0, 1>>),
     Prop("pinmux", <<0, 15, 255, 240, 0, 0, 0, 1>>),
     Prop("pinmux", <<0, 16, 0, 0, 0, 0, 0, 1>>)}

Nodes == ConfSeqs \cup {<<m>> \o c : m \in PinmuxProps, c \in ConfSeqs}

ChildNodes ==
    {<<Prop("bias-pull-up", <<>>)>>,
     <<Prop("pinmux", <<0, 0, 0, 1>>), Prop("bias-pull-up", <<>>)>>,
     <<Prop("pinmux", <<0, 16, 0, 0>>)>>,
     <<Prop("pinmux", <<0, 0, 0, 1>>),
       Prop("output-enable", <<0, 0, 0, 1, 0, 0, 0, 1>>)>>}

\* A configuration node alone or with one child.
Trees == {<<n>> : n \in Nodes} \cup {<<n, c>> : n \in Nodes, c \in ChildNodes}

\* Per node, the Config Set sizes at which realloc fails: at most one
\* failure in a call.
AllocFails(n) ==
    {f \in [1..n -> {{}, {0}, {1}}] :
        Cardinality({i \in 1..n : f[i] # {}}) <= 1}

RECURSIVE Tuples(_)
\* The number of pinmux tuples of the nodes of a tree.
Tuples(tree) ==
    IF tree = <<>> THEN 0
    ELSE (IF scmi_pinctrl_parse_pinmux_len(tree[1]) > 0
          THEN scmi_pinctrl_parse_pinmux_len(tree[1]) ELSE 0)
         + Tuples(Tail(tree))

RECURSIVE Flatten(_)
Flatten(ss) == IF ss = <<>> THEN <<>> ELSE ss[1] \o Flatten(Tail(ss))

CodecSetState ==
    /\ Idle
    /\ \E tree \in Trees :
          \E r \in Outcomes(2 * Tuples(tree)), fails \in AllocFails(Len(tree)) :
             LET res == scmi_pinctrl_set_state(tree, r, fails)
             IN  codec' = [CodecIdle EXCEPT
                             !.op = "set_state",
                             !.tree = tree,
                             !.fails = fails,
                             !.ret = res.ret,
                             !.nodes = res.nodes,
                             !.sent = Flatten([i \in 1..Len(res.nodes) |->
                                                 res.nodes[i].sent])]
    /\ UNCHANGED <<parent, probed, num_ranges, ranges, gpio_configs, rmux,
                   rconf, call, sent, prev>>

\* The driver after a successful probe: the pinctrl uclass applies a state
\* to a probed device only.
InitState ==
    /\ parent = TRUE
    /\ probed = TRUE
    /\ num_ranges = 0
    /\ ranges = <<>>
    /\ gpio_configs = <<>>
    /\ rmux = [p \in Pins16 |-> 0]
    /\ rconf = [p \in Pins16 |-> <<>>]
    /\ call = NoCall
    /\ sent = <<>>
    /\ prev = NoPrev
    /\ codec = CodecIdle

NextState ==
    \/ CodecSetState
    \/ CodecReturn

SpecState == InitState /\ [][NextState]_vars

(* ------------------ every operation on a probed device ---------------- *)
\* Configuration trees: a node that is not a pinmux node, alone and with
\* a child of one tuple and a default property, a node of two tuples, a
\* pin wider than 16 bits, and a value of the wrong size.
FrameTrees ==
    {<<<<Prop("bias-disable", <<>>)>>>>,
     <<<<Prop("bias-disable", <<>>)>>,
       <<Prop("pinmux", <<0, 0, 0, 1>>), Prop("bias-disable", <<>>)>>>>,
     <<<<Prop("pinmux", <<0, 15, 255, 240, 0, 0, 0, 1>>)>>>>,
     <<<<Prop("pinmux", <<0, 16, 0, 0>>)>>>>,
     <<<<Prop("pinmux", <<0, 0, 0, 1>>),
         Prop("output-enable", <<0, 0, 0, 1, 0, 0, 0, 1>>)>>>>}

SetState ==
    /\ Idle
    /\ probed
    /\ \E tree \in FrameTrees :
          \E r \in Outcomes(2 * Tuples(tree)), fails \in AllocFails(Len(tree)) :
             LET res == scmi_pinctrl_set_state(tree, r, fails)
             IN  /\ call' = Call("set_state", 0, 0, "", 0,
                                 \A i \in 1..Len(tree) : fails[i] = {},
                                 res.ret)
                 /\ Transport(Flatten([i \in 1..Len(res.nodes) |->
                                         res.nodes[i].sent]))
    /\ UNCHANGED <<parent, probed, num_ranges, ranges, gpio_configs, prev,
                   codec>>

\* The registry of the frame runs: pin 0 claimed (a release leaves the
\* empty registry).
FrameList ==
    <<[pin |-> 0, func |-> MaxFunc,
       cfg |-> MkCfg(<<PACK_CFG(CONV_PIN_CONFIG_BIAS_DISABLE, 1)>>)]>>

\* The driver after a successful probe that filled the Range Table, with
\* pins claimed.
InitFrame ==
    /\ parent = TRUE
    /\ probed = TRUE
    /\ num_ranges = MaxRanges
    /\ ranges = [i \in 1..MaxRanges |-> [begin |-> i - 1, num_pins |-> 1]]
    /\ gpio_configs = FrameList
    /\ rmux = [p \in Pins16 |-> 0]
    /\ rconf = [p \in Pins16 |-> <<>>]
    /\ call = NoCall
    /\ sent = <<>>
    /\ prev = NoPrev
    /\ codec = CodecIdle

NextFrame ==
    \/ PinmuxSet
    \/ PinconfSet
    \/ SetState
    \/ GpioRequestEnable
    \/ GpioDisableFree
    \/ GetGpioMux
    \/ Return

SpecFrame == InitFrame /\ [][NextFrame]_vars

(* =============================== claims =============================== *)
IsError(ret) == ret < 0

\* The error a request's reply stands for (0 for status 0).
ReplyError(reply) ==
    IF reply.ret # 0 THEN reply.ret ELSE scmi_to_linux_errno(reply.status)

Params(configs) == {UNPACK_PARAM(configs[i]) : i \in 1..Len(configs)}
Entries(configs) == {configs[i] : i \in 1..Len(configs)}
UniqueParams(configs) == Cardinality(Params(configs)) = Len(configs)
ArgOf(configs, p) ==
    UNPACK_ARG(configs[CHOOSE i \in 1..Len(configs) :
                          UNPACK_PARAM(configs[i]) = p])

(* C1: with a remote that answers every request with status 0 (and no      *)
(* allocation failing), gpio_request_enable(P) for P <= 65535 returns 0,   *)
(* and a gpio_disable_free(P) that follows it returns 0 too and leaves the *)
(* remote with the mux function and configuration P had before the claim.  *)
C1_RestorationFidelity ==
    /\ (/\ call.op = "gpio_request_enable"
        /\ call.pin <= U16_MAX
        /\ call.allocs_ok
        /\ AllOk(sent)
        /\ DOMAIN call.pre_conf \subseteq 0..(CONV_PIN_CONFIG_NUM_CONFIGS - 1))
       => call.ret = 0
    /\ (/\ call.op = "gpio_disable_free"
        /\ prev.op = "gpio_request_enable"
        /\ prev.pin = call.pin
        /\ AllOk(sent))
       => /\ prev.ret = 0
          /\ call.ret = 0
          /\ rmux[call.pin] = prev.pre_mux
          /\ rconf[call.pin] = prev.pre_conf

C3_ClaimAllOrNothing ==
    [][(call.op = "none" /\ call'.op = "gpio_request_enable")
       => /\ IsError(call'.ret) => gpio_configs' = gpio_configs
          /\ call'.ret # 0 => gpio_configs' = gpio_configs
          /\ gpio_configs' # gpio_configs
             => /\ call'.ret = 0
                /\ Len(sent') = 3
                /\ sent'[3].msg = "PINMUX_SET"
                /\ sent'[3].func = 0
                /\ ReplyOk(sent'[3].reply)
                /\ Len(gpio_configs') = Len(gpio_configs) + 1
                /\ Tail(gpio_configs') = gpio_configs
                /\ Head(gpio_configs').pin = call'.pin]_vars

C3_Witness_ClaimFailedMidSequence ==
    /\ call.op = "gpio_request_enable"
    /\ IsError(call.ret)
    /\ Len(sent) = 2
    /\ sent[2].msg = "PINCONF_GET"

C5_ReleaseOfUnclaimedPin ==
    [][(/\ call.op = "none"
        /\ call'.op = "gpio_disable_free"
        /\ SavedAt(gpio_configs, call'.pin) = {})
       => /\ IsError(call'.ret)
          /\ sent' = <<>>
          /\ gpio_configs' = gpio_configs]_vars

C5_Witness_OtherPinClaimed ==
    /\ call.op = "gpio_disable_free"
    /\ call.pin <= U16_MAX
    /\ SavedAt(gpio_configs, call.pin) = {}
    /\ gpio_configs # <<>>
    /\ sent = <<>>
    /\ call.ret = -EINVAL

(* C6: for a Get Config response with status 0 whose mask has only bits    *)
(* below 24, scmi_pinctrl_get_config returns 0 and the Config Set holds    *)
(* one entry per set bit of the mask, highest id first: a multi-bit id     *)
(* with the next multi_bit_values slot, a boolean id with 1 or 0 as its    *)
(* bit of boolean_values is set or clear.                                  *)
ExpectedDecode(resp) ==
    LET ids == DescSeq(resp.mask)
        multi == DescSeq(resp.mask \cap scmi_pinctrl_multi_bit_cfgs)
    IN  [i \in 1..Len(ids) |->
           [param |-> ids[i],
            arg |-> IF ids[i] \in scmi_pinctrl_multi_bit_cfgs
                    THEN ReadSlot(resp.multi_bit_values,
                                  IndexOf(multi, ids[i]) - 1)
                    ELSE IF ids[i] \in resp.boolean_values THEN 1 ELSE 0]]

C6_GetConfigDecode ==
    (/\ codec.op = "get_config"
     /\ AllOk(codec.sent)
     /\ codec.arg = 1
     /\ codec.resp.mask \subseteq 0..(CONV_PIN_CONFIG_NUM_CONFIGS - 1))
    => /\ codec.ret = 0
       /\ codec.out.num_configs = Cardinality(codec.resp.mask)
       /\ codec.out.configs = ExpectedDecode(codec.resp)

(* C7: for a Config Set with unique parameter ids below 24 and a pin       *)
(* <= 65535, scmi_pinctrl_set_configs sends one bulk request whose mask is *)
(* the set of the ids, whose boolean_values are the boolean ids with a     *)
(* nonzero argument and whose multi_bit_values are the arguments of the    *)
(* multi-bit ids, highest id first, whatever the order of the entries.     *)
C7_BulkEncode ==
    (/\ codec.op = "set_configs"
     /\ codec.pin <= U16_MAX
     /\ UniqueParams(codec.cfg.configs)
     /\ Params(codec.cfg.configs) \subseteq 0..(CONV_PIN_CONFIG_NUM_CONFIGS - 1))
    => /\ Len(codec.sent) = 1
       /\ LET req == codec.sent[1]
              in == codec.cfg.configs
              ms == DescSeq(Params(in) \cap scmi_pinctrl_multi_bit_cfgs)
          IN  /\ req.msg = "PINCONF_SET_OVR"
              /\ req.pin = codec.pin
              /\ req.mask = Params(in)
              /\ req.boolean_values =
                    {q \in Params(in) \ scmi_pinctrl_multi_bit_cfgs :
                        ArgOf(in, q) # 0}
              /\ req.multi_bit_values = [i \in 1..Len(ms) |-> ArgOf(in, ms[i])]

C7_Witness_UnsortedInput ==
    /\ codec.op = "set_configs"
    /\ Len(codec.sent) = 1
    /\ \E i \in 1..Len(codec.cfg.configs), j \in 1..Len(codec.cfg.configs) :
          /\ i < j
          /\ UNPACK_PARAM(codec.cfg.configs[i]) = CONV_PIN_CONFIG_SKEW_DELAY
          /\ UNPACK_PARAM(codec.cfg.configs[j]) = CONV_PIN_CONFIG_SLEW_RATE
          /\ UNPACK_ARG(codec.cfg.configs[i]) # UNPACK_ARG(codec.cfg.configs[j])
    /\ codec.sent[1].boolean_values # {}

(* C8: for a Config Set with unique parameter ids below 24 (boolean        *)
(* arguments 0 or 1), the decoder applied to the mask, boolean_values and  *)
(* multi_bit_values the bulk encoder sent returns 0 and yields the entries *)
(* of the set in the order the encoder sorted them (descending by id).     *)
C8_EncodeDecodeRoundTrip ==
    (/\ codec.op = "set_configs"
     /\ codec.ret = 0
     /\ Len(codec.sent) = 1
     /\ codec.cfg.configs # <<>>
     /\ UniqueParams(codec.cfg.configs)
     /\ Params(codec.cfg.configs) \subseteq 0..(CONV_PIN_CONFIG_NUM_CONFIGS - 1)
     /\ \A i \in 1..Len(codec.cfg.configs) :
           scmi_pinctrl_is_multi_bit_value(UNPACK_PARAM(codec.cfg.configs[i]))
           \/ UNPACK_ARG(codec.cfg.configs[i]) \in {0, 1})
    => LET req == codec.sent[1]
           d == scmi_pinctrl_push_back_configs(
                   [mask |-> req.mask,
                    boolean_values |-> req.boolean_values,
                    multi_bit_values |-> req.multi_bit_values],
                   EmptyCfg, TRUE)
       IN  /\ d.ret = 0
           /\ d.cfg.configs = codec.out.configs

(* C9: for a pin <= 65535 and a wire parameter id in 0..23,                *)
(* scmi_pinctrl_append_conf sends one incremental request whose mask is    *)
(* 1 << id; a multi-bit id carries one slot holding the argument, a        *)
(* boolean id omits the slot and has boolean bit id set iff the argument   *)
(* is 1; an id of 24 or more is rejected without a request.                *)
C9_IncrementalSetConfig ==
    codec.op = "append_conf" =>
       IF codec.pin <= U16_MAX /\ codec.param < CONV_PIN_CONFIG_NUM_CONFIGS
       THEN /\ Len(codec.sent) = 1
            /\ codec.sent[1].msg = "PINCONF_SET_APP"
            /\ codec.sent[1].pin = codec.pin
            /\ codec.sent[1].mask = BIT_32(codec.param)
            /\ IF scmi_pinctrl_is_multi_bit_value(codec.param)
               THEN /\ codec.sent[1].multi_bit_values = <<codec.arg>>
                    /\ codec.sent[1].in_msg_sz = 16
               ELSE /\ codec.sent[1].multi_bit_values = <<>>
                    /\ codec.sent[1].in_msg_sz = 12
                    /\ (codec.param \in codec.sent[1].boolean_values)
                          <=> (codec.arg = 1)
       ELSE /\ codec.sent = <<>>
            /\ codec.ret = -EINVAL

(* C10: when the transport call of a request succeeds and the response's   *)
(* status is nonzero, the operation that sent it returns an error.         *)
C10_StatusTranslation ==
    (/\ call.op # "none"
     /\ \E i \in 1..Len(sent) :
           sent[i].reply.ret = 0 /\ sent[i].reply.status # 0)
    => IsError(call.ret)

(* C11: for a pin index in 0..65535 and a remote that answers with status  *)
(* 0 (no allocation failing), get_gpio_mux returns GPIOF_FUNC after the    *)
(* Get Mux request alone when the pin's mux function is nonzero; when it   *)
(* is 0 it returns GPIOF_OUTPUT if the pin's configuration has             *)
(* output-enable = 1 and not input-enable = 1, GPIOF_INPUT if it has       *)
(* input-enable = 1 and not output-enable = 1, GPIOF_UNKNOWN with neither. *)
HasEnabled(conf, p) == p \in DOMAIN conf /\ conf[p] = 1

C11_DirectionQuery ==
    (/\ call.op = "get_gpio_mux"
     /\ call.pin \in 0..U16_MAX
     /\ call.allocs_ok
     /\ AllOk(sent))
    => IF call.pre_mux # 0
       THEN /\ call.ret = GPIOF_FUNC
            /\ Len(sent) = 1
            /\ sent[1].msg = "PINMUX_GET"
       ELSE LET out == HasEnabled(call.pre_conf, CONV_PIN_CONFIG_OUTPUT_ENABLE)
                in == HasEnabled(call.pre_conf, CONV_PIN_CONFIG_INPUT_ENABLE)
            IN  /\ (out /\ ~in) => call.ret = GPIOF_OUTPUT
                /\ (in /\ ~out) => call.ret = GPIOF_INPUT
                /\ (~in /\ ~out) => call.ret = GPIOF_UNKNOWN

(* C13: pinmux_set, pinconf_set, gpio_request_enable, get_gpio_mux and     *)
(* scmi_pinctrl_set_configs given a pin of 65536 or more, and pinmux_set   *)
(* given a function of 65536 or more, return -EINVAL, send no request and  *)
(* leave the registry as it was; pinmux_set with pin 65535 and a function  *)
(* <= 65535 sends one Set Mux request carrying pin 65535 and that function.*)
Rejected == codec.ret = -EINVAL /\ codec.sent = <<>>

C13_SixteenBitBoundary ==
    /\ (/\ codec.op \in {"pinmux_set", "pinconf_set", "get_gpio_mux",
                         "set_configs"}
        /\ codec.pin > U16_MAX)
       => Rejected
    /\ (codec.op = "gpio_request_enable" /\ codec.pin > U16_MAX)
       => (Rejected /\ codec.list_out = codec.list)
    /\ (codec.op = "pinmux_set" /\ codec.func > U16_MAX) => Rejected
    /\ (codec.op = "pinmux_set" /\ codec.pin = U16_MAX
        /\ codec.func <= U16_MAX)
       => /\ Len(codec.sent) = 1
          /\ codec.sent[1].msg = "PINMUX_SET"
          /\ codec.sent[1].pin = U16_MAX
          /\ codec.sent[1].func = codec.func
          /\ codec.ret = ReplyError(codec.sent[1].reply)

C13_Witness_HighestPinAccepted ==
    /\ codec.op = "pinmux_set"
    /\ codec.pin = U16_MAX
    /\ codec.func = U16_MAX
    /\ Len(codec.sent) = 1
    /\ codec.ret = 0

(* C14: scmi_pinctrl_set_configs writes at most max_mb_elems (20) slots of *)
(* multi_bit_values, so never one at index 20 or beyond; for a Config Set  *)
(* with more than 20 multi-bit entries it returns an error and sends       *)
(* nothing; a request it sends carries a slot for every multi-bit entry.   *)
MultiCount(configs) ==
    Cardinality({i \in 1..Len(configs) :
                   scmi_pinctrl_is_multi_bit_value(UNPACK_PARAM(configs[i]))})

C14_Capacity ==
    codec.op = "set_configs"
    => /\ codec.index <= max_mb_elems
       /\ MultiCount(codec.cfg.configs) > max_mb_elems
          => (IsError(codec.ret) /\ codec.sent = <<>>)
       /\ codec.sent # <<>>
          => /\ Len(codec.sent[1].multi_bit_values)
                   = MultiCount(codec.cfg.configs)
             /\ SetConfigsHeaderSize
                   + SlotSize * Len(codec.sent[1].multi_bit_values)
                   <= codec.sent[1].in_msg_sz

C14_Witness_OneSlotTooMany ==
    /\ codec.op = "set_configs"
    /\ codec.pin <= U16_MAX
    /\ MultiCount(codec.cfg.configs) = max_mb_elems + 1
    /\ codec.index = max_mb_elems
    /\ codec.ret = -EINVAL
    /\ codec.sent = <<>>

(* C15: after any sequence of scmi_pinctrl_add_config calls from the empty *)
(* set the entry count is at most 24, and a call made when the count is 24 *)
(* fails and leaves the count at 24.                                       *)
C15_ConfigSetCap ==
    codec.op = "add_config"
    => /\ codec.out.num_configs <= CONV_PIN_CONFIG_NUM_CONFIGS
       /\ codec.cfg.num_configs = CONV_PIN_CONFIG_NUM_CONFIGS
          => /\ IsError(codec.ret)
             /\ codec.out.num_configs = CONV_PIN_CONFIG_NUM_CONFIGS

(* C16: when scmi_pinctrl_add_config has to grow the storage and realloc   *)
(* fails, it returns -ENOMEM and the Config Set is as before the call:     *)
(* same entries, same count, and an allocated field that still is the size *)
(* of the storage held; no later append writes past the storage held.      *)
C16_AppendUnderAllocFailure ==
    codec.op = "add_config"
    => /\ ~codec.out.oob
       /\ codec.ret = -ENOMEM
          => /\ codec.out.configs = codec.cfg.configs
             /\ codec.out.num_configs = codec.cfg.num_configs
             /\ codec.out.allocated = codec.cfg.allocated
             /\ codec.out.allocated = codec.out.held

(* C18: scmi_pinctrl_set_configs given a Config Set with an entry whose    *)
(* parameter id is 24 or more returns -EINVAL and sends no request.        *)
C18_BulkParamBound ==
    (/\ codec.op = "set_configs"
     /\ \E q \in Params(codec.cfg.configs) : q >= CONV_PIN_CONFIG_NUM_CONFIGS)
    => (codec.ret = -EINVAL /\ codec.sent = <<>>)

(* C19: when gpio_disable_free finds an entry for the pin, the requests it *)
(* sends are Set Mux(pin, saved function) and then, only after that one    *)
(* succeeded, the bulk Set Config of the saved Config Set; when both       *)
(* succeed it returns 0 and the registry is the old one without that       *)
(* entry; the entry is removed in no other case, and the entries of other  *)
(* pins stay as they were, in their order.                                 *)
EncodesCfg(req, pin, configs) ==
    LET ms == DescSeq(Params(configs) \cap scmi_pinctrl_multi_bit_cfgs)
    IN  /\ req.msg = "PINCONF_SET_OVR"
        /\ req.pin = pin
        /\ req.mask = Params(configs)
        /\ req.boolean_values =
              {q \in Params(configs) \ scmi_pinctrl_multi_bit_cfgs :
                  ArgOf(configs, q) # 0}
        /\ req.multi_bit_values = [k \in 1..Len(ms) |-> ArgOf(configs, ms[k])]

C19_SuccessfulReleaseSequence ==
    [][(/\ call.op = "none"
        /\ call'.op = "gpio_disable_free"
        /\ SavedAt(gpio_configs, call'.pin) # {})
       => LET i == FirstSaved(gpio_configs, call'.pin)
              save == gpio_configs[i]
              OtherPin(e) == e.pin # call'.pin
          IN  /\ Len(sent') \in {1, 2}
              /\ sent'[1].msg = "PINMUX_SET"
              /\ sent'[1].pin = call'.pin
              /\ sent'[1].func = save.func
              /\ Len(sent') = 2
                 => /\ ReplyOk(sent'[1].reply)
                    /\ EncodesCfg(sent'[2], call'.pin, save.cfg.configs)
              /\ (Len(sent') = 2 /\ AllOk(sent'))
                 => /\ call'.ret = 0
                    /\ gpio_configs' = RemoveAt(gpio_configs, i)
              /\ Len(gpio_configs') # Len(gpio_configs)
                 => (Len(sent') = 2 /\ AllOk(sent') /\ call'.ret = 0)
              /\ SelectSeq(gpio_configs', OtherPin)
                    = SelectSeq(gpio_configs, OtherPin)]_vars

C19_Witness_ReleasedBesideOtherPin ==
    /\ call.op = "gpio_disable_free"
    /\ call.ret = 0
    /\ Len(sent) = 2
    /\ AllOk(sent)
    /\ Len(sent[2].multi_bit_values) = 2
    /\ Len(gpio_configs) = 1
    /\ gpio_configs[1].pin # call.pin

PinmuxCells(node) ==
    LET v == IF PropsNamed(node, "pinmux") = {} THEN <<>>
             ELSE node[CHOOSE i \in PropsNamed(node, "pinmux") : TRUE].value
    IN  [k \in 1..(Len(v) \div 4) |->
            fdt32_to_cpu(SubSeq(v, 4 * k - 3, 4 * k))]

WideTuples(node) ==
    {k \in 1..Len(PinmuxCells(node)) : PinmuxCells(node)[k] \div 16 > U16_MAX}

\* The requests of a node's tuples before its first tuple with a wide pin.
NodeRequests(node) ==
    LET cells == PinmuxCells(node)
        n == IF WideTuples(node) = {} THEN Len(cells)
             ELSE (CHOOSE k \in WideTuples(node) :
                      \A j \in WideTuples(node) : k <= j) - 1
    IN  Flatten([k \in 1..n |->
                   <<[msg |-> "PINMUX_SET", pin |-> cells[k] \div 16,
                      func |-> cells[k] % 16],
                     [msg |-> "PINCONF_SET_OVR", pin |-> cells[k] \div 16,
                      func |-> 0]>>])

RECURSIVE ExpectedRequests(_)
ExpectedRequests(tree) ==
    IF tree = <<>> THEN <<>>
    ELSE NodeRequests(tree[1])
         \o (IF WideTuples(tree[1]) # {} THEN <<>>
             ELSE ExpectedRequests(Tail(tree)))

C12_ApplyStateOrdering ==
    codec.op = "set_state"
    => LET E == ExpectedRequests(codec.tree)
           S == codec.sent
           cut == \E i \in 1..Len(codec.tree) : WideTuples(codec.tree[i]) # {}
       IN  /\ Len(S) <= Len(E)
           /\ \A k \in 1..Len(S) :
                 /\ S[k].msg = E[k].msg
                 /\ S[k].pin = E[k].pin
                 /\ S[k].func = E[k].func
           /\ \A k \in 1..(Len(S) - 1) : ReplyOk(S[k].reply)
           /\ ~AllOk(S) => codec.ret = ReplyError(S[Len(S)].reply)
           /\ (AllOk(S) /\ (Len(S) < Len(E) \/ cut)) => IsError(codec.ret)
           /\ codec.ret = 0 <=> (AllOk(S) /\ Len(S) = Len(E) /\ ~cut)

C12_Witness_StopsAtSecondTuple ==
    /\ codec.op = "set_state"
    /\ Len(codec.tree) = 2
    /\ Len(ExpectedRequests(codec.tree)) = 6
    /\ Len(codec.sent) = 3
    /\ ~ReplyOk(codec.sent[3].reply)
    /\ codec.ret = ReplyError(codec.sent[3].reply)

(* C17: the Config Set built for a node holds exactly one entry per      *)
(* property whose name is in the parameter-name table, in property order,  *)
(* and none for any other property; the entry's argument is the property's *)
(* explicit 32-bit value when it has one and the table's default when it   *)
(* has none; "bias-pull-up" without a value gives argument 1 and every     *)
(* bulk Set Config of the node carries its mask bit and its boolean bit.   *)
TableNames ==
    {scmi_pinctrl_pinconf_params[i].property :
        i \in 1..Len(scmi_pinctrl_pinconf_params)}

TableRow(name) ==
    scmi_pinctrl_pinconf_params[
        CHOOSE i \in 1..Len(scmi_pinctrl_pinconf_params) :
            scmi_pinctrl_pinconf_params[i].property = name]

IsRecognized(property) == property.name \in TableNames

Recognized(node) == SelectSeq(node, IsRecognized)

\* What the claim says a recognized property's entry is.
StatedEntry(property) ==
    [param |-> scmi_pinctrl_convert[TableRow(property.name).param],
     arg |-> IF property.value = <<>>
             THEN TableRow(property.name).default_value
             ELSE fdt32_to_cpu(property.value)]

BiasPullUpDefault(node, out) ==
    (\E i \in 1..Len(node) :
        node[i] = Prop("bias-pull-up", <<>>))
    => /\ \E k \in 1..Len(out.configs) :
             out.configs[k] = [param |-> CONV_PIN_CONFIG_BIAS_PULL_UP,
                               arg |-> 1]
       /\ \A k \in 1..Len(out.sent) :
             out.sent[k].msg = "PINCONF_SET_OVR"
             => /\ CONV_PIN_CONFIG_BIAS_PULL_UP \in out.sent[k].mask
                /\ CONV_PIN_CONFIG_BIAS_PULL_UP
                      \in out.sent[k].boolean_values

C17_ConfigSetConstruction ==
    codec.op = "set_state"
    => \A i \in 1..Len(codec.nodes) :
          codec.nodes[i].built
          => LET rec == Recognized(codec.tree[i])
                 out == codec.nodes[i]
             IN  /\ Len(out.configs) = Len(rec)
                 /\ \A k \in 1..Len(rec) : out.configs[k] = StatedEntry(rec[k])
                 /\ BiasPullUpDefault(codec.tree[i], out)

\* C17 as the code has it: the argument of an entry is the low 24 bits of
\* the property's explicit value (PACK_CFG shifts it left by 8 in 32 bits).
C17_ConfigSetConstruction_Low24Bits ==
    codec.op = "set_state"
    => \A i \in 1..Len(codec.nodes) :
          codec.nodes[i].built
          => LET rec == Recognized(codec.tree[i])
                 out == codec.nodes[i]
             IN  /\ Len(out.configs) = Len(rec)
                 /\ \A k \in 1..Len(rec) :
                       /\ out.configs[k].param = StatedEntry(rec[k]).param
                       /\ out.configs[k].arg
                             = StatedEntry(rec[k]).arg % Pow2(ArgBits)
                 /\ BiasPullUpDefault(codec.tree[i], out)

C17_Witness_DefaultAndWideValue ==
    /\ codec.op = "set_state"
    /\ codec.ret = 0
    /\ codec.tree = <<<<Prop("pinmux", <<0, 0, 0, 1>>),
                        Prop("slew-rate", <<1, 0, 0, 1>>),
                        Prop("bias-pull-up", <<>>)>>>>
    /\ codec.nodes[1].configs
          = <<[param |-> CONV_PIN_CONFIG_SLEW_RATE, arg |-> 1],
              [param |-> CONV_PIN_CONFIG_BIAS_PULL_UP, arg |-> 1]>>
    /\ Len(codec.sent) = 2
    /\ codec.sent[2].mask
          = {CONV_PIN_CONFIG_SLEW_RATE, CONV_PIN_CONFIG_BIAS_PULL_UP}
    /\ codec.sent[2].boolean_values = {CONV_PIN_CONFIG_BIAS_PULL_UP}
    /\ codec.sent[2].multi_bit_values = <<1>>

(* C21: on a probed device no operation changes the Range Table (ranges  *)
(* and their count); the saved-pin registry changes only in a step of      *)
(* gpio_request_enable or gpio_disable_free, and pinmux_set, pinconf_set,  *)
(* set_state and get_gpio_mux leave it as it was, succeeding or failing.   *)
C21_Frame ==
    [][probed
       => /\ ranges' = ranges
          /\ num_ranges' = num_ranges
          /\ gpio_configs' # gpio_configs
             => call'.op \in {"gpio_request_enable", "gpio_disable_free"}
          /\ call'.op \in {"pinmux_set", "pinconf_set", "set_state",
                           "get_gpio_mux"}
             => gpio_configs' = gpio_configs]_vars

C21_Witness_FailedSetStateOnClaimedPins ==
    /\ call.op = "set_state"
    /\ IsError(call.ret)
    /\ Len(sent) = 3
    /\ gpio_configs = FrameList
    /\ Len(ranges) = MaxRanges
    /\ probed

====
